---- MODULE Spec2Model ----
(***************************************************************************)
(* A model of the locust-sql performance-testing utilities:                *)
(*   - compare_performance.py : the Calcite / Non-Calcite comparison tool  *)
(*   - data_generation/*_turbo.py : the bulk-indexing document generators  *)
(*                                                                         *)
(* Text is modelled as a sequence of strings (numerals character by       *)
(* character, fixed literals as one piece), so that parsing (float) and    *)
(* formatting (f"{x:.2f}%") are computed, not assumed.                     *)
(* Each subsystem has its own specification over its own variables; the    *)
(* variables of the other subsystems stay at their idle values.            *)
(***************************************************************************)
EXTENDS Integers, Sequences, FiniteSets, TLC

VARIABLES
    \* ---- calculate_percentage_change applied to one pair of cells
    pct_pc, calcite_val, non_calcite_val, pct_result,
    \* ---- compare_performance.py: main() and compare_performance()
    cmp_pc, argv, fs, ppl_store, calcite_file, non_calcite_file, output_file,
    log_type, ppl_type, ppl_base_dir, calcite_data, non_calcite_data,
    loop_i, comparison_results, non_calcite_row, summary, exc, exit_code,
    \* ---- one generator worker (worker() of the *_turbo.py variants)
    w_variant, num_batches, w_pc, batch_num, retry, success_count,
    failed_count, consecutive_failures, attempts, history, last_response,
    submissions,
    \* ---- one generator run (main() of the *_turbo.py variants)
    variant, m_pc, batches_per_thread, submitted, wstate, wresult,
    total_indexed, total_failed, env, http_log,
    \* ---- locustfile.py: the class OpenSearchPPLUser and its users
    os_environ, query_files, queries, dsl_queries, cls_log_type, query_type,
    load_count, u_pc, u_iter, posted,
    \* ---- visualize_performance.py: create_all_visualizations
    viz_pc, viz_csv, df_queries, df_aggregated, png_files, viz_exc,
    \* ---- get_session of one generator, called from several threads
    gs_pc, local, session_owner, returned, gs_calls,
    \* ---- ingest_big5_data.py: main
    ing_pc, data_file, line_num, batch_docs, total_docs, successful_docs,
    batch_count, sent

pctVars == <<pct_pc, calcite_val, non_calcite_val, pct_result>>
cmpVars == <<cmp_pc, argv, fs, ppl_store, calcite_file, non_calcite_file,
             output_file, log_type, ppl_type, ppl_base_dir, calcite_data,
             non_calcite_data, loop_i, comparison_results, non_calcite_row,
             summary, exc, exit_code>>
wkVars  == <<w_variant, num_batches, w_pc, batch_num, retry, success_count,
             failed_count, consecutive_failures, attempts, history,
             last_response, submissions>>
runVars == <<variant, m_pc, batches_per_thread, submitted, wstate, wresult,
             total_indexed, total_failed, env, http_log>>
locVars == <<os_environ, query_files, queries, dsl_queries, cls_log_type,
             query_type, load_count, u_pc, u_iter, posted>>
vizVars == <<viz_pc, viz_csv, df_queries, df_aggregated, png_files, viz_exc>>
gsVars  == <<gs_pc, local, session_owner, returned, gs_calls>>
ingVars == <<ing_pc, data_file, line_num, batch_docs, total_docs,
             successful_docs, batch_count, sent>>
vars    == <<pctVars, cmpVars, wkVars, runVars, locVars, vizVars, gsVars,
             ingVars>>

\* what an action of one subsystem leaves alone
besidesPct == <<cmpVars, wkVars, runVars, locVars, vizVars, gsVars, ingVars>>
besidesCmp == <<pctVars, wkVars, runVars, locVars, vizVars, gsVars, ingVars>>
besidesWk  == <<pctVars, cmpVars, runVars, locVars, vizVars, gsVars, ingVars>>
besidesRun == <<pctVars, cmpVars, wkVars, locVars, vizVars, gsVars, ingVars>>
besidesLoc == <<pctVars, cmpVars, wkVars, runVars, vizVars, gsVars, ingVars>>
besidesViz == <<pctVars, cmpVars, wkVars, runVars, locVars, gsVars, ingVars>>
besidesGs  == <<pctVars, cmpVars, wkVars, runVars, locVars, vizVars, ingVars>>
besidesIng == <<pctVars, cmpVars, wkVars, runVars, locVars, vizVars, gsVars>>

-----------------------------------------------------------------------------
(* Bounds of the model *)

\* input cells hold the numerals -MaxNeg .. MaxVal
MaxVal == 20
MaxNeg == 2
\* a worker is given up to this many batches more than the failures that
\* make it stop
ExtraBatches == 2
\* in a run, the workers 1 .. MaxFailingWorkers may come back with failures
MaxFailingWorkers == 2

-----------------------------------------------------------------------------
(* Text *)

Digits == <<"0", "1", "2", "3", "4", "5", "6", "7", "8", "9">>

IsDigit(c) == \E d \in 1..10 : Digits[d] = c

DigitVal(c) == (CHOOSE d \in 1..10 : Digits[d] = c) - 1

\* str(n) for a natural number n
RECURSIVE NatText(_)
NatText(n) == IF n < 10 THEN <<Digits[n + 1]>>
              ELSE NatText(n \div 10) \o <<Digits[(n % 10) + 1]>>

\* str(i) for an integer i
IntText(i) == IF i < 0 THEN <<"-">> \o NatText(0 - i) ELSE NatText(i)

\* the value of a non-empty sequence of digits
RECURSIVE DigitsValue(_)
DigitsValue(s) == IF Len(s) = 0 THEN 0
                  ELSE 10 * DigitsValue(SubSeq(s, 1, Len(s) - 1)) + DigitVal(s[Len(s)])

AllDigits(s) == Len(s) > 0 /\ \A i \in 1..Len(s) : IsDigit(s[i])

\* the literal 'N/A', the empty text, and Python's None (the value
\* csv.DictReader gives a cell that a short row does not have)
NA        == <<"N/A">>
EmptyText == <<>>
None      == <<"None">>

Abs(x) == IF x < 0 THEN 0 - x ELSE x

\* float(x): the integer numerals [-]digits parse to their value; None is a
\* TypeError; every other text of the model's cells is a ValueError.
float(x) ==
    IF x = None THEN [exc |-> "TypeError", v |-> 0]
    ELSE IF AllDigits(x) THEN [exc |-> "none", v |-> DigitsValue(x)]
    ELSE IF Len(x) > 1 /\ x[1] = "-" /\ AllDigits(Tail(x))
         THEN [exc |-> "none", v |-> 0 - DigitsValue(Tail(x))]
    ELSE [exc |-> "ValueError", v |-> 0]

\* the quotient num/den rounded to the nearest integer, ties to even, for
\* num >= 0 and den > 0
RoundHalfEven(num, den) ==
    LET q == num \div den
        r == num % den
    IN  IF 2 * r < den THEN q
        ELSE IF 2 * r > den THEN q + 1
        ELSE IF q % 2 = 0 THEN q ELSE q + 1

\* f"{x:.2f}" for the float x = num/den (den # 0).  The sign is the float's
\* sign bit: a zero numerator over a negative denominator is -0.0.
Format2f(num, den) ==
    LET neg == IF num = 0 THEN den < 0 ELSE (num < 0) # (den < 0)
        h   == RoundHalfEven(Abs(num) * 100, Abs(den))
    IN  (IF neg THEN <<"-">> ELSE <<>>)
        \o NatText(h \div 100) \o <<".">>
        \o <<Digits[((h % 100) \div 10) + 1], Digits[(h % 10) + 1]>>

-----------------------------------------------------------------------------
(* compare_performance.py: calculate_percentage_change *)

Returned(v) == [kind |-> "return", val |-> v]
Raised(e)   == [kind |-> "raise", val |-> <<e>>]

\* a plausible slip: the calcite value taken as the baseline
PctChangeRatioSwapped(calcite_float, non_calcite_float) ==
    [num |-> (calcite_float - non_calcite_float) * 100, den |-> calcite_float]

\* ((calcite_float - non_calcite_float) / non_calcite_float) * 100, as the
\* exact ratio num/den
PctChangeRatio(calcite_float, non_calcite_float) ==
    [num |-> (calcite_float - non_calcite_float) * 100, den |-> non_calcite_float]

\* except (ValueError, ZeroDivisionError)
CaughtByPct(e) == e \in {"ValueError", "ZeroDivisionError"}

calculate_percentage_change(cv, ncv) ==
    LET cf == float(cv)
        nf == float(ncv)
        handle(e) == IF CaughtByPct(e) THEN Returned(NA) ELSE Raised(e)
    IN  IF cf.exc # "none" THEN handle(cf.exc)
        ELSE IF nf.exc # "none" THEN handle(nf.exc)
        ELSE IF nf.v = 0 THEN Returned(NA)
        ELSE LET change == PctChangeRatio(cf.v, nf.v)
             IN  IF change.den = 0 THEN handle("ZeroDivisionError")
                 ELSE Returned(Format2f(change.num, change.den) \o <<"%">>)

-----------------------------------------------------------------------------
(* Result tables (the CSV files the load test writes) *)

AVG    == "Average Response Time"
MEDIAN == "Median Response Time"
RPS    == "Requests/s"

\* the seven metrics compare_performance compares
Metrics == {MEDIAN, AVG, "Min Response Time", "Max Response Time",
            "95%", "99%", RPS}

Columns == {"Name", "Request Count", "Failure Count"} \cup Metrics

\* query names, as the load test names its requests
Aggregated == <<"Aggregated">>
DslVpcQ1   == <<"DSL Query", ":", " ", "vpc", "/", "q1">>
PplVpcQ1   == <<"PPL Query", ":", " ", "vpc", "/", "q1">>
PplWafQ1   == <<"PPL Query", ":", " ", "waf", "/", "q1">>

\* the names of the model, in the order of Python's string comparison
NameOrder == <<Aggregated, DslVpcQ1, PplVpcQ1, PplWafQ1>>

\* a row of csv.DictReader: column -> cell, every metric but the average
\* holding the same text
Row(name, avg, rest) ==
    [c \in Columns |-> IF c = "Name" THEN name
                       ELSE IF c = AVG THEN avg ELSE rest]

\* dict.get(key, default)
Get(row, key, default) == IF key \in DOMAIN row THEN row[key] ELSE default

EmptyDict == [c \in {} |-> <<>>]

\* {row['Name']: row for row in data}: a later row replaces an earlier one
\* of the same name
NameMap(data) ==
    LET names == {data[i]["Name"] : i \in 1..Len(data)}
        last(nm) == CHOOSE i \in 1..Len(data) :
                        /\ data[i]["Name"] = nm
                        /\ \A j \in 1..Len(data) : data[j]["Name"] = nm => j <= i
    IN  [nm \in names |-> data[last(nm)]]

\* set(list(calcite_map.keys()) + list(non_calcite_map.keys()))
AllQueryNames(calcite_map, non_calcite_map) ==
    DOMAIN calcite_map \cup DOMAIN non_calcite_map

\* sorted(S) for a set S of names
RECURSIVE SortedFrom(_, _)
SortedFrom(S, k) ==
    IF k > Len(NameOrder) THEN <<>>
    ELSE (IF NameOrder[k] \in S THEN <<NameOrder[k]>> ELSE <<>>)
         \o SortedFrom(S, k + 1)

sorted(S) == SortedFrom(S, 1)

all_queries ==
    sorted(AllQueryNames(NameMap(calcite_data), NameMap(non_calcite_data)))

-----------------------------------------------------------------------------
(* compare_performance.py: read_ppl_query and the body of the row loop *)

LogTypes == {"vpc", "nfw", "cloudtrail", "waf", "big5"}

\* the index of the first / last occurrence of token t in text s (0: none)
FirstIndex(s, t) ==
    IF \E i \in 1..Len(s) : s[i] = t
    THEN CHOOSE i \in 1..Len(s) : s[i] = t /\ \A j \in 1..(i - 1) : s[j] # t
    ELSE 0

LastIndex(s, t) ==
    IF \E i \in 1..Len(s) : s[i] = t
    THEN CHOOSE i \in 1..Len(s) : s[i] = t /\ \A j \in (i + 1)..Len(s) : s[j] # t
    ELSE 0

\* str.strip() of blanks
RECURSIVE strip(_)
strip(s) == IF Len(s) > 0 /\ s[1] = " " THEN strip(Tail(s))
            ELSE IF Len(s) > 0 /\ s[Len(s)] = " "
                 THEN strip(SubSeq(s, 1, Len(s) - 1))
            ELSE s

\* the text of the file ppl/<dir>/<stem>.ppl
PplFileText(dir, stem) == <<"text of ppl", "/", dir, "/">> \o stem \o <<".ppl">>

\* a plausible slip: the file is read without asking whether it exists
read_ppl_query_unchecked(query_name, base_dir, store) ==
    IF base_dir = "None" THEN NA
    ELSE PplFileText(base_dir, <<query_name[Len(query_name)]>>)

\* read_ppl_query(query_name, ppl_base_dir); base_dir is "None" or the
\* log type whose ppl directory was found
read_ppl_query(query_name, base_dir, store) ==
    IF base_dir = "None" THEN NA
    ELSE LET hasPrefix == \E i \in 1..(Len(query_name) - 1) :
                              query_name[i] = "PPL Query" /\ query_name[i + 1] = ":"
             n1 == IF hasPrefix
                   THEN strip(SubSeq(query_name, FirstIndex(query_name, ":") + 1,
                                     Len(query_name)))
                   ELSE query_name
             n2 == IF FirstIndex(n1, "/") > 0
                   THEN SubSeq(n1, LastIndex(n1, "/") + 1, Len(n1))
                   ELSE n1
         IN  IF <<base_dir, n2>> \in store.files
             THEN PplFileText(base_dir, n2) ELSE NA

\* a plausible slip: the row is skipped only when both sides lack it
SkipRowBoth(crow, nrow) ==
    DOMAIN crow = {} /\ DOMAIN nrow = {}

\* if not calcite_row or not non_calcite_row: continue
SkipRow(crow, nrow) ==
    DOMAIN crow = {} \/ DOMAIN nrow = {}

\* a plausible slip: <= in place of <
CalciteWinsLe(calcite_avg, non_calcite_avg) == calcite_avg <= non_calcite_avg

\* if calcite_avg < non_calcite_avg
CalciteWins(calcite_avg, non_calcite_avg) == calcite_avg < non_calcite_avg

\* a plausible slip: <= in place of <
NonCalciteWinsLe(calcite_avg, non_calcite_avg) == non_calcite_avg <= calcite_avg

\* elif non_calcite_avg < calcite_avg
NonCalciteWins(calcite_avg, non_calcite_avg) == non_calcite_avg < calcite_avg

Faster(num, den) == Format2f(num * 100, den) \o <<"%", " faster">>

\* lines 172-184: the winner label and the improvement text
Winner(calcite_avg, non_calcite_avg) ==
    IF CalciteWins(calcite_avg, non_calcite_avg)
    THEN IF non_calcite_avg = 0 THEN Raised("ZeroDivisionError")
         ELSE Returned([better |-> <<"Calcite">>,
                        improvement |-> Faster(non_calcite_avg - calcite_avg,
                                               non_calcite_avg)])
    ELSE IF NonCalciteWins(calcite_avg, non_calcite_avg)
    THEN IF calcite_avg = 0 THEN Raised("ZeroDivisionError")
         ELSE Returned([better |-> <<"Non-Calcite">>,
                        improvement |-> Faster(calcite_avg - non_calcite_avg,
                                               calcite_avg)])
    ELSE Returned([better |-> <<"Equal">>,
                   improvement |-> <<"Same performance">>])

\* the change fields of one row, or the first exception raised computing them
Changes(crow, nrow) ==
    LET ch(m) == calculate_percentage_change(Get(crow, m, <<"0">>),
                                             Get(nrow, m, <<"0">>))
    IN  IF \E m \in Metrics : ch(m).kind = "raise"
        THEN ch(CHOOSE m \in Metrics : ch(m).kind = "raise")
        ELSE Returned([m \in Metrics |-> ch(m).val])

\* lines 172-258: the comparison row of one matched query name
Comparison(query_name, crow, nrow, base_dir, store) ==
    LET ca == float(Get(crow, AVG, <<"0">>))
        na == float(Get(nrow, AVG, <<"0">>))
        w  == Winner(ca.v, na.v)
        ch == Changes(crow, nrow)
    IN  IF ca.exc # "none" THEN Raised(ca.exc)
        ELSE IF na.exc # "none" THEN Raised(na.exc)
        ELSE IF w.kind = "raise" THEN w
        ELSE IF ch.kind = "raise" THEN ch
        ELSE Returned(
            [QueryName   |-> query_name,
             PPLQuery    |-> IF query_name # Aggregated
                             THEN read_ppl_query(query_name, base_dir, store)
                             ELSE NA,
             Better      |-> w.val.better,
             Improvement |-> w.val.improvement,
             Calcite     |-> [c \in Columns \ {"Name"} |-> Get(crow, c, NA)],
             NonCalcite  |-> [c \in Columns \ {"Name"} |-> Get(nrow, c, NA)],
             Change      |-> ch.val])

-----------------------------------------------------------------------------
(* The inputs of the comparison tool: files, arguments, result tables *)

Prog       == "compare_performance.py"
CalciteCsv == "calcite.csv"
NonCalCsv  == "non_calcite.csv"
OutCsv     == "out.csv"
DefaultOut == "calcite_vs_non_calcite_comparison.csv"
Paths      == {CalciteCsv, NonCalCsv, OutCsv, DefaultOut}

NoFile         == [exists |-> FALSE, tag |-> "none", rows |-> <<>>]
OldFile        == [exists |-> TRUE, tag |-> "old", rows |-> <<>>]
InputFile(t)   == [exists |-> TRUE, tag |-> "input", rows |-> t]
WrittenFile(t) == [exists |-> TRUE, tag |-> "written", rows |-> t]

Unbound == "<unbound>"

CellTexts  == {IntText(i) : i \in (0 - MaxNeg)..MaxVal} \cup {NA, EmptyText, None}
FocusTexts == {<<"0">>, <<"7">>, IntText(MaxVal), NA, EmptyText, None}

\* tables that differ in the names they hold; one list repeats a name
NameLists ==
    {sorted(S) : S \in SUBSET {Aggregated, DslVpcQ1, PplVpcQ1}}
    \cup {<<PplVpcQ1, Aggregated, PplVpcQ1>>, <<PplWafQ1, PplVpcQ1>>}

JoinAvg(side, name, i) ==
    IF i > 2 THEN (IF side = "calcite" THEN <<"1">> ELSE <<"1", "4">>)
    ELSE IF name = Aggregated THEN (IF side = "calcite" THEN <<"1", "2">> ELSE <<"1", "5">>)
    ELSE IF name = PplVpcQ1 THEN (IF side = "calcite" THEN <<"1", "5">> ELSE <<"1", "0">>)
    ELSE IF name = DslVpcQ1 THEN <<"7">>
    ELSE (IF side = "calcite" THEN <<"2">> ELSE <<"8">>)

JoinRest(side, name) ==
    IF name = Aggregated THEN (IF side = "calcite" THEN <<"1", "0">> ELSE <<"2", "0">>)
    ELSE IF name = PplVpcQ1 THEN (IF side = "calcite" THEN <<"5">> ELSE <<"4">>)
    ELSE IF name = DslVpcQ1 THEN (IF side = "calcite" THEN <<"3">> ELSE <<"6">>)
    ELSE (IF side = "calcite" THEN <<"1">> ELSE <<"2">>)

JoinTable(side, names) ==
    [i \in 1..Len(names) |->
        Row(names[i], JoinAvg(side, names[i], i), JoinRest(side, names[i]))]

JoinPairs ==
    {[c |-> JoinTable("calcite", cn), n |-> JoinTable("non_calcite", nn)] :
        cn \in NameLists, nn \in NameLists}

AggRow(side) == Row(Aggregated, JoinAvg(side, Aggregated, 1), JoinRest(side, Aggregated))

\* one query row whose averages range over the cell texts
AvgPairs ==
    {[c |-> <<Row(PplVpcQ1, a, <<"5">>), AggRow("calcite")>>,
      n |-> <<Row(PplVpcQ1, b, <<"4">>), AggRow("non_calcite")>>] :
        a \in CellTexts, b \in CellTexts}

\* one query row with one of the other metrics ranging over cell texts
FocusPairs ==
    {[c |-> <<[Row(PplVpcQ1, <<"1", "5">>, <<"5">>) EXCEPT ![m] = x], AggRow("calcite")>>,
      n |-> <<[Row(PplVpcQ1, <<"1", "0">>, <<"4">>) EXCEPT ![m] = y], AggRow("non_calcite")>>] :
        m \in Metrics \ {AVG}, x \in FocusTexts, y \in FocusTexts}

\* a table written without one of the columns
Without(t, col) ==
    [i \in 1..Len(t) |-> [c \in (DOMAIN t[i]) \ {col} |-> t[i][c]]]

HeaderPairs ==
    LET c0 == <<Row(PplVpcQ1, <<"1", "5">>, <<"5">>), AggRow("calcite")>>
        n0 == <<Row(PplVpcQ1, <<"1", "0">>, <<"4">>), AggRow("non_calcite")>>
    IN  {[c |-> Without(c0, col), n |-> n0] : col \in Columns \ {"Name"}}
        \cup {[c |-> c0, n |-> Without(n0, col)] : col \in Columns \ {"Name"}}
        \cup {[c |-> Without(c0, col), n |-> Without(n0, col)] : col \in Columns \ {"Name"}}

\* the ppl/<log type> directories and the .ppl files in them
NoStore   == [dirs |-> {}, files |-> {}]
BareStore == [dirs |-> {"vpc"}, files |-> {}]
FullStore == [dirs |-> {"vpc", "waf"},
              files |-> {<<"vpc", <<"q1">>>>, <<"waf", <<"q1">>>>}]

NoSummary == [printed |-> FALSE, avg_change |-> NA, median_change |-> NA,
              rps_change |-> NA, calcite_wins |-> 0, non_calcite_wins |-> 0]

CmpIdle ==
    /\ cmp_pc = "idle" /\ argv = <<>> /\ fs = <<>> /\ ppl_store = NoStore
    /\ calcite_file = "None" /\ non_calcite_file = "None" /\ output_file = "None"
    /\ log_type = Unbound /\ ppl_type = "None" /\ ppl_base_dir = "None"
    /\ calcite_data = <<>> /\ non_calcite_data = <<>> /\ loop_i = 0
    /\ comparison_results = <<>> /\ non_calcite_row = EmptyDict
    /\ summary = NoSummary /\ exc = "none" /\ exit_code = -1

CmpInit ==
    /\ \E tp \in JoinPairs \cup AvgPairs \cup FocusPairs \cup HeaderPairs,
          a \in {<<Prog>>, <<Prog, CalciteCsv, NonCalCsv>>,
                 <<Prog, CalciteCsv, NonCalCsv, OutCsv>>},
          ex \in {<<TRUE, TRUE, FALSE>>, <<TRUE, TRUE, TRUE>>, <<FALSE, TRUE, FALSE>>,
                  <<TRUE, FALSE, TRUE>>, <<FALSE, FALSE, FALSE>>},
          st \in {NoStore, BareStore, FullStore} :
        /\ tp \notin JoinPairs => (a = <<Prog>> /\ ex = <<TRUE, TRUE, FALSE>> /\ st = FullStore)
        /\ argv = a
        /\ ppl_store = st
        /\ fs = [p \in Paths |->
                    IF p = CalciteCsv THEN (IF ex[1] THEN InputFile(tp.c) ELSE NoFile)
                    ELSE IF p = NonCalCsv THEN (IF ex[2] THEN InputFile(tp.n) ELSE NoFile)
                    ELSE IF ex[3] THEN OldFile ELSE NoFile]
    /\ cmp_pc = "start"
    /\ calcite_file = "None" /\ non_calcite_file = "None" /\ output_file = "None"
    /\ log_type = Unbound /\ ppl_type = "None" /\ ppl_base_dir = "None"
    /\ calcite_data = <<>> /\ non_calcite_data = <<>> /\ loop_i = 0
    /\ comparison_results = <<>> /\ non_calcite_row = EmptyDict
    /\ summary = NoSummary /\ exc = "none" /\ exit_code = -1

-----------------------------------------------------------------------------
(* compare_performance.py: main() and compare_performance() *)

\* sys.exit(code) with the exception, if any, that __main__ caught
Exit(code, e) == /\ cmp_pc' = "exit" /\ exit_code' = code /\ exc' = e

\* main(), lines 337-350: the file paths come from the command line
MainArgs ==
    /\ UNCHANGED besidesCmp
    /\ cmp_pc = "start"
    /\ Len(argv) >= 3
    /\ calcite_file' = argv[2]
    /\ non_calcite_file' = argv[3]
    /\ output_file' = IF Len(argv) >= 4 THEN argv[4] ELSE DefaultOut
    /\ IF ~fs[argv[2]].exists \/ ~fs[argv[3]].exists
       THEN Exit(1, "none")
       ELSE cmp_pc' = "call" /\ UNCHANGED <<exit_code, exc>>
    /\ UNCHANGED <<argv, fs, ppl_store, log_type, ppl_type, ppl_base_dir,
                   calcite_data, non_calcite_data, loop_i, comparison_results,
                   non_calcite_row, summary>>

\* get_file_input: the path of an existing file, or None when the user gives up
FileAnswers(path) == (IF fs[path].exists THEN {path} ELSE {}) \cup {"None"}

\* main(), lines 351-403: the file paths and the log type are typed in
MainInteractive ==
    /\ UNCHANGED besidesCmp
    /\ cmp_pc = "start"
    /\ Len(argv) < 3
    /\ \E c \in FileAnswers(CalciteCsv), n \in FileAnswers(NonCalCsv),
          lt \in {"vpc", "waf", "None"} :
        IF c = "None"
        THEN /\ Exit(1, "none")
             /\ UNCHANGED <<calcite_file, non_calcite_file, output_file, log_type>>
        ELSE IF n = "None"
        THEN /\ Exit(1, "none")
             /\ calcite_file' = c
             /\ UNCHANGED <<non_calcite_file, output_file, log_type>>
        ELSE /\ calcite_file' = c
             /\ non_calcite_file' = n
             /\ log_type' = lt
             /\ output_file' = DefaultOut
             /\ cmp_pc' = "call"
             /\ UNCHANGED <<exit_code, exc>>
    /\ UNCHANGED <<argv, fs, ppl_store, ppl_type, ppl_base_dir,
                   calcite_data, non_calcite_data, loop_i, comparison_results,
                   non_calcite_row, summary>>

\* main(), line 405, and compare_performance(), lines 126-153.  The local
\* log_type is assigned on the interactive path only: reading it on the
\* command-line path raises UnboundLocalError.
MainCall ==
    /\ UNCHANGED besidesCmp
    /\ cmp_pc = "call"
    /\ IF log_type = Unbound
       THEN /\ Exit(1, "UnboundLocalError")
            /\ UNCHANGED <<ppl_type, ppl_base_dir, calcite_data, non_calcite_data,
                           loop_i>>
       ELSE /\ ppl_type' = log_type
            /\ calcite_data' = fs[calcite_file].rows
            /\ non_calcite_data' = fs[non_calcite_file].rows
            /\ ppl_base_dir' = IF log_type \in ppl_store.dirs
                               THEN log_type ELSE "None"
            /\ loop_i' = 1
            /\ cmp_pc' = "loop"
            /\ UNCHANGED <<exit_code, exc>>
    /\ UNCHANGED <<argv, fs, ppl_store, calcite_file, non_calcite_file,
                   output_file, log_type, comparison_results, non_calcite_row,
                   summary>>

\* compare_performance(), lines 165-260: one iteration of the loop
LoopStep ==
    /\ UNCHANGED besidesCmp
    /\ cmp_pc = "loop"
    /\ loop_i <= Len(all_queries)
    /\ LET query_name == all_queries[loop_i]
           crow == Get(NameMap(calcite_data), query_name, EmptyDict)
           nrow == Get(NameMap(non_calcite_data), query_name, EmptyDict)
           r    == Comparison(query_name, crow, nrow, ppl_base_dir, ppl_store)
       IN  /\ non_calcite_row' = nrow
           /\ IF SkipRow(crow, nrow)
              THEN /\ loop_i' = loop_i + 1
                   /\ UNCHANGED <<cmp_pc, exit_code, exc, comparison_results>>
              ELSE IF r.kind = "raise"
              THEN /\ Exit(1, r.val[1])
                   /\ UNCHANGED <<loop_i, comparison_results>>
              ELSE /\ comparison_results' = Append(comparison_results, r.val)
                   /\ loop_i' = loop_i + 1
                   /\ UNCHANGED <<cmp_pc, exit_code, exc>>
    /\ UNCHANGED <<argv, fs, ppl_store, calcite_file, non_calcite_file,
                   output_file, log_type, ppl_type, ppl_base_dir, calcite_data,
                   non_calcite_data, summary>>

\* a plausible slip: the table is written even when it has no row
NothingToWriteNever(results) == FALSE

\* the else branch of `if comparison_results:` (line 263)
NothingToWrite(results) == results = <<>>

\* compare_performance(), lines 262-273 and 322-324
WriteResults ==
    /\ UNCHANGED besidesCmp
    /\ cmp_pc = "loop"
    /\ loop_i > Len(all_queries)
    /\ IF NothingToWrite(comparison_results)
       THEN /\ Exit(1, "none")
            /\ UNCHANGED fs
       ELSE /\ fs' = [fs EXCEPT ![output_file] = WrittenFile(comparison_results)]
            /\ cmp_pc' = "summary"
            /\ UNCHANGED <<exit_code, exc>>
    /\ UNCHANGED <<argv, ppl_store, calcite_file, non_calcite_file,
                   output_file, log_type, ppl_type, ppl_base_dir, calcite_data,
                   non_calcite_data, loop_i, comparison_results, non_calcite_row,
                   summary>>

\* a plausible slip: the Aggregated row is counted with the queries
WinsWithAggregated(t, label) ==
    Cardinality({i \in 1..Len(t) : t[i].Better = label})

\* the number of rows r of t with r['Better Performance'] == label and
\* r['Query Name'] != 'Aggregated'
Wins(t, label) ==
    Cardinality({i \in 1..Len(t) : t[i].Better = label /\ t[i].QueryName # Aggregated})

\* compare_performance(), lines 280-326
Summary ==
    /\ UNCHANGED besidesCmp
    /\ cmp_pc = "summary"
    /\ LET aggregated_calcite == Get(NameMap(calcite_data), Aggregated, EmptyDict)
           aggregated_non_calcite == Get(NameMap(non_calcite_data), Aggregated, EmptyDict)
           avg_change == calculate_percentage_change(
                             Get(aggregated_calcite, AVG, <<"0">>),
                             Get(aggregated_non_calcite, AVG, <<"0">>))
           median_change == calculate_percentage_change(
                             Get(aggregated_calcite, MEDIAN, <<"0">>),
                             Get(aggregated_non_calcite, MEDIAN, <<"0">>))
           rps_change == calculate_percentage_change(
                             Get(aggregated_calcite, RPS, <<"0">>),
                             Get(non_calcite_row, RPS, <<"0">>))
       IN  IF DOMAIN aggregated_calcite = {} \/ DOMAIN aggregated_non_calcite = {}
           THEN Exit(0, "none") /\ UNCHANGED summary
           ELSE IF \E ch \in {avg_change, median_change, rps_change} : ch.kind = "raise"
           THEN Exit(1, "TypeError") /\ UNCHANGED summary
           ELSE /\ summary' = [printed |-> TRUE,
                               avg_change |-> avg_change.val,
                               median_change |-> median_change.val,
                               rps_change |-> rps_change.val,
                               calcite_wins |-> Wins(comparison_results, <<"Calcite">>),
                               non_calcite_wins |-> Wins(comparison_results, <<"Non-Calcite">>)]
                /\ Exit(0, "none")
    /\ UNCHANGED <<argv, fs, ppl_store, calcite_file, non_calcite_file,
                   output_file, log_type, ppl_type, ppl_base_dir, calcite_data,
                   non_calcite_data, loop_i, comparison_results, non_calcite_row>>

CmpNext == MainArgs \/ MainInteractive \/ MainCall \/ LoopStep \/ WriteResults \/ Summary

-----------------------------------------------------------------------------
(* calculate_percentage_change on its own *)

PctIdle ==
    /\ pct_pc = "idle" /\ calcite_val = <<>> /\ non_calcite_val = <<>>
    /\ pct_result = Returned(<<>>)

PctInit ==
    /\ pct_pc = "start"
    /\ calcite_val \in CellTexts
    /\ non_calcite_val \in CellTexts
    /\ pct_result = Returned(<<>>)

PctApply ==
    /\ UNCHANGED besidesPct
    /\ pct_pc = "start"
    /\ pct_result' = calculate_percentage_change(calcite_val, non_calcite_val)
    /\ pct_pc' = "done"
    /\ UNCHANGED <<calcite_val, non_calcite_val>>

-----------------------------------------------------------------------------
(* data_generation/*_turbo.py: bulk_index and worker *)

Variants == {"vpc", "nfw", "cloudtrail", "waf"}

\* the variants whose worker retries a batch (vpc_flow_turbo.py,
\* cloudtrail_turbo.py and waf_turbo.py hold the same worker)
Retrying == {"vpc", "cloudtrail", "waf"}

\* what one POST to _bulk can come to
Responses == {"200 errors=false", "201 errors=false", "200 errors=true",
              "500", "timeout", "connection error", "other exception"}

\* session.post(...) or response.json() raises inside the try block
RequestRaises(response) ==
    response \in {"timeout", "connection error", "other exception"}

\* response.status_code
bulk_status_code(response) ==
    CASE response \in {"200 errors=false", "200 errors=true"} -> 200
      [] response = "201 errors=false" -> 201
      [] response = "500" -> 500
      [] OTHER -> 0

\* result.get('errors', False)
errors(response) == response = "200 errors=true"

\* a plausible slip: the errors flag of the body is not looked at
bulk_index_status_only(response) ==
    IF RequestRaises(response) THEN FALSE
    ELSE bulk_status_code(response) \in {200, 201}

\* bulk_index(index_name, docs), given what the POST came to: every
\* exception of the try block is caught by an except clause returning False
bulk_index(response) ==
    IF RequestRaises(response) THEN FALSE
    ELSE IF bulk_status_code(response) \notin {200, 201} THEN FALSE
    ELSE IF errors(response) THEN FALSE
    ELSE TRUE

max_retries == 3
ConsecutiveFailureLimit == 5
FirewallFailureLimit == 10

BatchSize(v) == IF v = "vpc" THEN 1000 ELSE 1500

\* the failures after which the worker of variant v breaks out of its loop
StopAfter(v) == IF v \in Retrying THEN ConsecutiveFailureLimit + 1
                ELSE FirewallFailureLimit + 1

\* a plausible slip: every failed submission counts the batch as failed
LastRetryAlways(r) == TRUE

\* if retry == max_retries - 1
LastRetry(r) == r = max_retries - 1

\* a plausible slip: one retry too many
MoreRetriesOffByOne(r) == r + 1 <= max_retries

\* `for retry in range(max_retries)`: another submission follows retry r
MoreRetries(r) == r + 1 < max_retries

\* a plausible slip: >= in place of >
TooManyConsecutiveGe(n) == n >= ConsecutiveFailureLimit

\* if consecutive_failures > 5
TooManyConsecutive(n) == n > ConsecutiveFailureLimit

\* if failed_count > 10
TooManyFailed(n) == n > FirewallFailureLimit

WkIdle ==
    /\ w_variant = "none" /\ num_batches = 0 /\ w_pc = "idle" /\ batch_num = 0
    /\ retry = 0 /\ success_count = 0 /\ failed_count = 0
    /\ consecutive_failures = 0 /\ attempts = 0 /\ history = <<>>
    /\ last_response = "none" /\ submissions = 0

WkInit ==
    /\ w_variant \in Variants
    /\ num_batches \in 1..(StopAfter(w_variant) + ExtraBatches)
    /\ w_pc = "loop" /\ batch_num = 0
    /\ retry = 0 /\ success_count = 0 /\ failed_count = 0
    /\ consecutive_failures = 0 /\ attempts = 0 /\ history = <<>>
    /\ last_response = "none" /\ submissions = 0

\* the end of one iteration of `for batch_num in range(num_batches)`:
\* break, or go on to the next batch, or leave the loop after the last one
EndOfBatch(stop) ==
    /\ batch_num' = batch_num + 1
    /\ w_pc' = IF stop THEN "break"
               ELSE IF batch_num + 1 = num_batches THEN "exhausted"
               ELSE "loop"

\* worker() of vpc_flow_turbo.py, cloudtrail_turbo.py, waf_turbo.py:
\* one submission of the current batch
RetryingSubmit ==
    /\ UNCHANGED besidesWk
    /\ w_pc = "loop"
    /\ w_variant \in Retrying
    /\ \E response \in Responses :
        /\ last_response' = response
        /\ attempts' = retry + 1
        /\ submissions' = submissions + 1
        /\ IF bulk_index(response)
           THEN /\ success_count' = success_count + BatchSize(w_variant)
                /\ consecutive_failures' = 0
                /\ retry' = 0
                /\ history' = Append(history, TRUE)
                /\ EndOfBatch(TooManyConsecutive(0))
                /\ UNCHANGED failed_count
           ELSE LET counted == LastRetry(retry)
                    failures == IF counted THEN consecutive_failures + 1
                                ELSE consecutive_failures
                IN  /\ failed_count' = IF counted THEN failed_count + 1
                                       ELSE failed_count
                    /\ consecutive_failures' = failures
                    /\ UNCHANGED success_count
                    /\ IF MoreRetries(retry)
                       THEN /\ retry' = retry + 1
                            /\ UNCHANGED <<history, batch_num, w_pc>>
                       ELSE /\ retry' = 0
                            /\ history' = Append(history, FALSE)
                            /\ EndOfBatch(TooManyConsecutive(failures))
    /\ UNCHANGED <<w_variant, num_batches>>

\* worker() of networkfirewall_turbo.py: the one submission of the batch
FirewallSubmit ==
    /\ UNCHANGED besidesWk
    /\ w_pc = "loop"
    /\ w_variant = "nfw"
    /\ \E response \in Responses :
        /\ last_response' = response
        /\ attempts' = 1
        /\ submissions' = submissions + 1
        /\ IF bulk_index(response)
           THEN /\ success_count' = success_count + BatchSize(w_variant)
                /\ history' = Append(history, TRUE)
                /\ EndOfBatch(FALSE)
                /\ UNCHANGED failed_count
           ELSE /\ failed_count' = failed_count + 1
                /\ history' = Append(history, FALSE)
                /\ EndOfBatch(TooManyFailed(failed_count + 1))
                /\ UNCHANGED success_count
    /\ UNCHANGED <<w_variant, num_batches, retry, consecutive_failures>>

WkNext == RetryingSubmit \/ FirewallSubmit

-----------------------------------------------------------------------------
(* data_generation/*_turbo.py: main *)

TargetDocs(v) == IF v = "vpc" THEN 24000000 ELSE 100000000

NumThreads(v) == IF v \in {"vpc", "waf"} THEN 4 ELSE 8

EnvVars == {"OPENSEARCH_ENDPOINT", "OPENSEARCH_USER", "OPENSEARCH_PASSWORD",
            "INDEX_NAME"}

\* os.getenv gives None for a variable that is not set, and its text otherwise
EnvSet == <<"set">>
EnvValues == {None, EmptyText, EnvSet}

\* Python truth of an os.getenv result: None and '' are false
Truthy(x) == x # None /\ x # EmptyText

\* a plausible slip: only the endpoint is checked
RequiredEndpointOnly(v) == {"OPENSEARCH_ENDPOINT"}

\* the variables main requires to be set and not empty:
\* `not endpoint or not index_name`, and `not all([...])` in the firewall variant
Required(v) == IF v = "nfw" THEN EnvVars
               ELSE {"OPENSEARCH_ENDPOINT", "INDEX_NAME"}

\* the check that ends main with the usage message
MissingEnv(v, e) == \E x \in Required(v) : ~Truthy(e[x])

\* batches_per_thread = target_docs // (batch_size * num_threads)
BatchesPerThread(target_docs, batch_size, num_threads) ==
    target_docs \div (batch_size * num_threads)

\* what worker() returns when every submission succeeds, and when it
\* breaks off after nothing but failures
AllIndexed(v, n) == <<n * BatchSize(v), 0>>
NoneIndexed(v)   == <<0, StopAfter(v)>>

NoResult == <<0, 0>>

\* a plausible slip: the totals are reported once some worker is collected
AllCollectedSome(ws) == \E w \in DOMAIN ws : ws[w] = "collected"

\* `for future in as_completed(futures)` has yielded every future
AllCollected(ws) == \A w \in DOMAIN ws : ws[w] = "collected"

RunIdle ==
    /\ variant = "none" /\ m_pc = "idle" /\ batches_per_thread = 0
    /\ submitted = 0 /\ wstate = <<>> /\ wresult = <<>>
    /\ total_indexed = 0 /\ total_failed = 0 /\ env = {} /\ http_log = {}

RunInit ==
    /\ variant \in Variants
    /\ env \in {[x \in EnvVars |-> EnvSet]}
               \cup {[x \in EnvVars |-> IF x = e THEN val ELSE EnvSet] :
                        e \in EnvVars, val \in EnvValues}
    /\ m_pc = "start" /\ batches_per_thread = 0 /\ submitted = 0
    /\ wstate = [w \in 1..NumThreads(variant) |-> "unsubmitted"]
    /\ wresult = [w \in 1..NumThreads(variant) |-> NoResult]
    /\ total_indexed = 0 /\ total_failed = 0 /\ http_log = {}

\* main(): the environment is read and checked, the generator constructed
ReadEnv ==
    /\ UNCHANGED besidesRun
    /\ m_pc = "start"
    /\ m_pc' = IF MissingEnv(variant, env) THEN "usage"
               ELSE IF variant \in Retrying THEN "test" ELSE "plan"
    /\ UNCHANGED <<variant, batches_per_thread, submitted, wstate, wresult,
                   total_indexed, total_failed, env, http_log>>

\* main() of the retrying variants: the test batch sent to 'test-index'
TestConnection ==
    /\ UNCHANGED besidesRun
    /\ m_pc = "test"
    /\ \E response \in Responses :
        m_pc' = IF bulk_index(response) THEN "plan" ELSE "test failed"
    /\ http_log' = http_log \cup {"_bulk test-index"}
    /\ UNCHANGED <<variant, batches_per_thread, submitted, wstate, wresult,
                   total_indexed, total_failed, env>>

\* main(): target_docs, batch_size, num_threads and batches_per_thread
Plan ==
    /\ UNCHANGED besidesRun
    /\ m_pc = "plan"
    /\ batches_per_thread' = BatchesPerThread(TargetDocs(variant), BatchSize(variant),
                                              NumThreads(variant))
    /\ m_pc' = "submit"
    /\ UNCHANGED <<variant, submitted, wstate, wresult, total_indexed,
                   total_failed, env, http_log>>

\* executor.submit(worker, ...) for the next i in range(num_threads)
SubmitWorker ==
    /\ UNCHANGED besidesRun
    /\ m_pc = "submit"
    /\ submitted' = submitted + 1
    /\ wstate' = [wstate EXCEPT ![submitted + 1] = "running"]
    /\ m_pc' = IF submitted + 1 = NumThreads(variant) THEN "collect" ELSE "submit"
    /\ UNCHANGED <<variant, batches_per_thread, wresult, total_indexed,
                   total_failed, env, http_log>>

\* worker() returns in its thread
WorkerReturn ==
    /\ UNCHANGED besidesRun
    /\ \E w \in DOMAIN wstate :
        /\ wstate[w] = "running"
        /\ \E r \in {AllIndexed(variant, batches_per_thread)}
                    \cup (IF w <= MaxFailingWorkers THEN {NoneIndexed(variant)} ELSE {}) :
            wresult' = [wresult EXCEPT ![w] = r]
        /\ wstate' = [wstate EXCEPT ![w] = "done"]
    /\ UNCHANGED <<variant, m_pc, batches_per_thread, submitted, total_indexed,
                   total_failed, env, http_log>>

\* a plausible slip: = in place of +=
AccumulateLast(total, count) == count

\* total_indexed += indexed; total_failed += failed
Accumulate(total, count) == total + count

\* one iteration of `for i, future in enumerate(as_completed(futures))`
Collect ==
    /\ UNCHANGED besidesRun
    /\ m_pc = "collect"
    /\ \E w \in DOMAIN wstate :
        /\ wstate[w] = "done"
        /\ wstate' = [wstate EXCEPT ![w] = "collected"]
        /\ total_indexed' = Accumulate(total_indexed, wresult[w][1])
        /\ total_failed' = Accumulate(total_failed, wresult[w][2])
    /\ UNCHANGED <<variant, m_pc, batches_per_thread, submitted, wresult, env,
                   http_log>>

\* the loop and the with-block are left, the Final line is printed
Final ==
    /\ UNCHANGED besidesRun
    /\ m_pc = "collect"
    /\ AllCollected(wstate)
    /\ m_pc' = IF variant \in Retrying THEN "refresh" ELSE "done"
    /\ UNCHANGED <<variant, batches_per_thread, submitted, wstate, wresult,
                   total_indexed, total_failed, env, http_log>>

\* main() of the retrying variants: POST <index>/_refresh
Refresh ==
    /\ UNCHANGED besidesRun
    /\ m_pc = "refresh"
    /\ http_log' = http_log \cup {"_refresh"}
    /\ m_pc' = "done"
    /\ UNCHANGED <<variant, batches_per_thread, submitted, wstate, wresult,
                   total_indexed, total_failed, env>>

RunNext == ReadEnv \/ TestConnection \/ Plan \/ SubmitWorker \/ WorkerReturn
           \/ Collect \/ Final \/ Refresh

-----------------------------------------------------------------------------
(* locustfile.py: OpenSearchPPLUser *)

\* simulated users spawned in the process
NumUsers == 2
Users == 1..NumUsers

\* texts of the selectors, character by character
ppl  == <<"p", "p", "l">>
dsl  == <<"d", "s", "l">>
both == <<"b", "o", "t", "h">>
all  == <<"a", "l", "l">>
vpc  == <<"v", "p", "c">>
waf  == <<"w", "a", "f">>
nfw  == <<"n", "f", "w">>
cloudtrail == <<"c", "l", "o", "u", "d", "t", "r", "a", "i", "l">>
big5 == <<"b", "i", "g", "5">>

UpperCase == <<"P", "L", "D", "S", "B", "O", "T", "H", "V", "C">>
LowerCase == <<"p", "l", "d", "s", "b", "o", "t", "h", "v", "c">>

\* str.lower()
lower(t) ==
    [i \in DOMAIN t |->
        IF \E k \in DOMAIN UpperCase : UpperCase[k] = t[i]
        THEN LowerCase[CHOOSE k \in DOMAIN UpperCase : UpperCase[k] = t[i]]
        ELSE t[i]]

\* os.getenv(name, default)
getenv(environ, name, default) ==
    IF environ[name] = None THEN default ELSE environ[name]

\* the settings a process can be started with
QueryTypeEnv == {None, ppl, dsl, both, <<"P", "P", "L">>}
LogTypeEnv == {None, vpc}

\* a query file <dir>/<log type>/<stem>.<ext> is the pair of its log type
\* and stem, and so is the query name f"{log_type}/{stem}"
QueryFileSets == {{}, {<<vpc, "q1">>, <<waf, "q1">>}}

\* log_types of _load_queries
log_types(lt) == IF lt = all THEN {vpc, nfw, cloudtrail, waf, big5} ELSE {lt}

\* a plausible slip: PPL is loaded and sent whatever the selector says
PplAllowedAlways(qt) == TRUE

\* query_type in ["ppl", "both"]
PplAllowed(qt) == qt \in {ppl, both}

\* a plausible slip: DSL is loaded and sent whatever the selector says
DslAllowedAlways(qt) == TRUE

\* query_type in ["dsl", "both"]
DslAllowed(qt) == qt \in {dsl, both}

\* the names _load_queries puts into queries and into dsl_queries
LoadedPpl(files, lt, qt) ==
    IF PplAllowed(qt) THEN {n \in files.ppl : n[1] \in log_types(lt)} ELSE {}

LoadedDsl(files, lt, qt) ==
    IF DslAllowed(qt) THEN {n \in files.dsl : n[1] \in log_types(lt)} ELSE {}

\* a plausible slip: every user loads
NeedsLoadAlways(q, d) == TRUE

\* `not OpenSearchPPLUser.queries and not OpenSearchPPLUser.dsl_queries`
NeedsLoad(q, d) == q = {} /\ d = {}

\* the paths the requests are posted to
PplPath == <<"/_plugins/_ppl">>
SearchPath(index_name) == <<"/">> \o index_name \o <<"/_search">>

\* HTTP status codes of a response
Statuses == {200, 201, 404}

\* a plausible slip: every 2xx status is a success
IsSuccess2xx(status_code) == status_code \in {200, 201}

\* `response.status_code == 200`
IsSuccess(status_code) == status_code = 200

\* what is known of a user's latest task iteration; after_failure tells
\* that the iteration before it recorded a failure
NoIter == [task |-> "none", query |-> <<>>, path |-> <<>>, requests |-> 0,
           status_code |-> -1, raised |-> FALSE, outcome |-> "none",
           after_failure |-> FALSE]

NextIter(it, task) == [NoIter EXCEPT !.task = task, !.after_failure = (it.outcome = "failure")]

LocIdle ==
    /\ os_environ = <<>> /\ query_files = <<>> /\ queries = {}
    /\ dsl_queries = {} /\ cls_log_type = None /\ query_type = None
    /\ load_count = 0 /\ u_pc = <<>> /\ u_iter = <<>> /\ posted = {}

LocInit ==
    /\ os_environ \in [QUERY_TYPE : QueryTypeEnv, LOG_TYPE : LogTypeEnv]
    /\ query_files \in [ppl : QueryFileSets, dsl : QueryFileSets]
    /\ queries = {} /\ dsl_queries = {}
    /\ cls_log_type = None /\ query_type = None
    /\ load_count = 0
    /\ u_pc = [u \in Users |-> "new"]
    /\ u_iter = [u \in Users |-> NoIter]
    /\ posted = {}

\* on_start, with the _load_queries it calls (the credentials given to the
\* HTTP client are outside the model).  The users are greenlets of one
\* process: a user runs until it waits for a response, and on_start waits
\* for none, so it is one step.
on_start(u) ==
    /\ UNCHANGED besidesLoc
    /\ u_pc[u] = "new"
    /\ LET lt == lower(getenv(os_environ, "LOG_TYPE", all))
           qt == lower(getenv(os_environ, "QUERY_TYPE", both))
           q  == queries \cup LoadedPpl(query_files, lt, qt)
           d  == dsl_queries \cup LoadedDsl(query_files, lt, qt)
       IN  /\ cls_log_type' = lt
           /\ query_type' = qt
           /\ IF NeedsLoad(queries, dsl_queries)
              THEN /\ queries' = q
                   /\ dsl_queries' = d
                   /\ IF q = {} /\ d = {}
                      THEN \* RuntimeError("No queries found ...")
                           /\ u_pc' = [u_pc EXCEPT ![u] = "crashed"]
                           /\ UNCHANGED load_count
                      ELSE /\ u_pc' = [u_pc EXCEPT ![u] = "ready"]
                           /\ load_count' = load_count + 1
              ELSE /\ u_pc' = [u_pc EXCEPT ![u] = "ready"]
                   /\ UNCHANGED <<queries, dsl_queries, load_count>>
    /\ UNCHANGED <<os_environ, query_files, u_iter, posted>>

\* execute_ppl_query, up to the post of its request
execute_ppl_query(u) ==
    /\ UNCHANGED besidesLoc
    /\ u_pc[u] = "ready"
    /\ IF queries = {} \/ ~PplAllowed(query_type)
       THEN /\ u_iter' = [u_iter EXCEPT ![u] = NextIter(@, "ppl")]
            /\ UNCHANGED <<u_pc, posted>>
       ELSE \E query_name \in queries :
            /\ u_iter' = [u_iter EXCEPT ![u] =
                            [NextIter(@, "ppl") EXCEPT !.query = query_name,
                                !.path = PplPath, !.requests = 1]]
            /\ posted' = posted \cup {PplPath}
            /\ u_pc' = [u_pc EXCEPT ![u] = "posted"]
    /\ UNCHANGED <<os_environ, query_files, queries, dsl_queries, cls_log_type,
                   query_type, load_count>>

\* execute_dsl_query, up to the post of its request
execute_dsl_query(u) ==
    /\ UNCHANGED besidesLoc
    /\ u_pc[u] = "ready"
    /\ IF dsl_queries = {} \/ ~DslAllowed(query_type)
       THEN /\ u_iter' = [u_iter EXCEPT ![u] = NextIter(@, "dsl")]
            /\ UNCHANGED <<u_pc, posted>>
       ELSE \E query_name \in dsl_queries :
            LET index_name == query_name[1]
            IN  /\ u_iter' = [u_iter EXCEPT ![u] =
                                [NextIter(@, "dsl") EXCEPT !.query = query_name,
                                    !.path = SearchPath(index_name),
                                    !.requests = 1]]
                /\ posted' = posted \cup {SearchPath(index_name)}
                /\ u_pc' = [u_pc EXCEPT ![u] = "posted"]
    /\ UNCHANGED <<os_environ, query_files, queries, dsl_queries, cls_log_type,
                   query_type, load_count>>

\* the body of `with self.client.post(...) as response` of either task
response(u) ==
    /\ UNCHANGED besidesLoc
    /\ u_pc[u] = "posted"
    /\ \/ \E status_code \in Statuses :
            u_iter' = [u_iter EXCEPT ![u] =
                         [@ EXCEPT !.status_code = status_code,
                                   !.outcome = IF IsSuccess(status_code)
                                               THEN "success" ELSE "failure"]]
       \/ \* `except Exception`: inspecting the response raised
          u_iter' = [u_iter EXCEPT ![u] =
                       [@ EXCEPT !.raised = TRUE, !.outcome = "failure"]]
    /\ u_pc' = [u_pc EXCEPT ![u] = "ready"]
    /\ UNCHANGED <<os_environ, query_files, queries, dsl_queries, cls_log_type,
                   query_type, load_count, posted>>

LocNext == \E u \in Users :
    on_start(u) \/ execute_ppl_query(u) \/ execute_dsl_query(u) \/ response(u)

-----------------------------------------------------------------------------
(* visualize_performance.py *)

\* perf_str.split('%')[0]
BeforePercent(s) ==
    IF FirstIndex(s, "%") = 0 THEN s ELSE SubSeq(s, 1, FirstIndex(s, "%") - 1)

\* float() of a text [-]digits[.digits]: its value in hundredths (the texts
\* of the merged table carry two decimals); any other text is a ValueError
FloatHundredths(x) ==
    LET neg  == Len(x) > 0 /\ x[1] = "-"
        body == IF neg THEN Tail(x) ELSE x
        dot  == FirstIndex(body, ".")
        int  == IF dot = 0 THEN body ELSE SubSeq(body, 1, dot - 1)
        frac == IF dot = 0 THEN <<>> ELSE SubSeq(body, dot + 1, Len(body))
        ok   == /\ AllDigits(int)
                /\ dot # 0 => (Len(frac) = 2 /\ AllDigits(frac))
        mag  == 100 * DigitsValue(int) + DigitsValue(frac)
    IN  IF ok THEN [exc |-> "none", v |-> IF neg THEN 0 - mag ELSE mag]
        ELSE [exc |-> "ValueError", v |-> 0]

\* the rows of a merged table as the comparison writes them: the label and
\* the improvement text of a pair of averages
VizAverages == {<<1, 2>>, <<2, 1>>, <<2, 2>>, <<1, 3>>}

VizRow(name, pair) ==
    LET w == Winner(pair[1], pair[2]).val
    IN  [QueryName |-> name, Better |-> w.better, Improvement |-> w.improvement]

\* the merged tables given to the script: one or two query rows, then
\* possibly the Aggregated row
VizQueryRows ==
    {<<VizRow(PplVpcQ1, a)>> : a \in VizAverages}
    \cup {<<VizRow(PplVpcQ1, a), VizRow(PplWafQ1, b)>> :
            a \in VizAverages, b \in VizAverages}

VizTables ==
    VizQueryRows
    \cup {t \o <<VizRow(Aggregated, a)>> : t \in VizQueryRows, a \in VizAverages}

SelectRows(t, Keep(_)) ==
    LET F[i \in 0..Len(t)] ==
            IF i = 0 THEN <<>>
            ELSE IF Keep(t[i]) THEN Append(F[i - 1], t[i]) ELSE F[i - 1]
    IN  F[Len(t)]

\* load_data: the query rows and the Aggregated row
IsAggregatedRow(row) == row.QueryName = Aggregated
IsQueryRow(row) == row.QueryName # Aggregated

\* create_performance_improvement, lines 76-79: the first row whose
\* improvement text float() rejects ends the function with a ValueError
ImprovementRaises(df) ==
    \E i \in 1..Len(df) :
        FloatHundredths(BeforePercent(df[i].Improvement)).exc # "none"

VizIdle ==
    /\ viz_pc = "idle" /\ viz_csv = <<>> /\ df_queries = <<>>
    /\ df_aggregated = <<>> /\ png_files = {} /\ viz_exc = "none"

VizInit ==
    /\ viz_csv \in VizTables
    /\ viz_pc = "load_data" /\ df_queries = <<>> /\ df_aggregated = <<>>
    /\ png_files = {} /\ viz_exc = "none"

\* plt.savefig of the files `saved`, after which the run is at `then`
Saved(saved, then) ==
    /\ png_files' = png_files \cup saved
    /\ viz_pc' = then
    /\ UNCHANGED <<viz_csv, df_queries, df_aggregated, viz_exc>>

load_data ==
    /\ UNCHANGED besidesViz
    /\ viz_pc = "load_data"
    /\ df_queries' = SelectRows(viz_csv, IsQueryRow)
    /\ df_aggregated' = SelectRows(viz_csv, IsAggregatedRow)
    /\ viz_pc' = "create_median_comparison"
    /\ UNCHANGED <<viz_csv, png_files, viz_exc>>

create_median_comparison ==
    /\ UNCHANGED besidesViz
    /\ viz_pc = "create_median_comparison"
    /\ Saved({"median_comparison.png"}, "create_performance_improvement")

create_performance_improvement ==
    /\ UNCHANGED besidesViz
    /\ viz_pc = "create_performance_improvement"
    /\ IF ImprovementRaises(df_queries)
       THEN /\ viz_exc' = "ValueError"
            /\ viz_pc' = "raised"
            /\ UNCHANGED <<viz_csv, df_queries, df_aggregated, png_files>>
       ELSE Saved({"performance_improvement.png"}, "create_percentile_comparison")

create_percentile_comparison ==
    /\ UNCHANGED besidesViz
    /\ viz_pc = "create_percentile_comparison"
    /\ Saved({"p95_comparison.png", "p99_comparison.png"}, "create_winner_summary")

create_winner_summary ==
    /\ UNCHANGED besidesViz
    /\ viz_pc = "create_winner_summary"
    /\ Saved({"winner_summary.png"}, "create_aggregated_summary")

\* create_aggregated_summary returns at once when there is no Aggregated row
create_aggregated_summary ==
    /\ UNCHANGED besidesViz
    /\ viz_pc = "create_aggregated_summary"
    /\ Saved(IF Len(df_aggregated) = 0 THEN {} ELSE {"aggregated_summary.png"},
             "done")

\* create_requests_per_second_comparison is defined (lines 241-277) but
\* create_all_visualizations never calls it, so it is no step of the run
create_requests_per_second_comparison ==
    /\ UNCHANGED besidesViz
    /\ viz_pc = "create_requests_per_second_comparison"
    /\ Saved({"requests_per_second.png"}, "create_aggregated_summary")

VizNext == load_data \/ create_median_comparison \/ create_performance_improvement
           \/ create_percentile_comparison \/ create_winner_summary
           \/ create_aggregated_summary

-----------------------------------------------------------------------------
(* data_generation/*_turbo.py: get_session *)

\* the threads that call get_session on the one generator (the main thread
\* and the workers), and the calls each makes
NumSessionThreads == 3
MaxCalls == 2
SessionThreads == 1..NumSessionThreads

\* a plausible slip: self.session in place of self.local.session, one
\* attribute for all the threads
SharedSlot(t) == 1

\* self.local = threading.local(): the attributes of self.local are kept
\* per thread
LocalSlot(t) == t

NoSession == 0

GsIdle ==
    /\ gs_pc = <<>> /\ local = <<>> /\ session_owner = <<>>
    /\ returned = <<>> /\ gs_calls = <<>>

GsInit ==
    /\ gs_pc = [t \in SessionThreads |-> "idle"]
    /\ local = [t \in SessionThreads |-> NoSession]
    /\ session_owner = <<>>
    /\ returned = [t \in SessionThreads |-> {}]
    /\ gs_calls = [t \in SessionThreads |-> 0]

\* `if not hasattr(self.local, 'session')`
get_session_hasattr(t) ==
    /\ UNCHANGED besidesGs
    /\ gs_pc[t] = "idle"
    /\ gs_calls[t] < MaxCalls
    /\ gs_pc' = [gs_pc EXCEPT ![t] = IF local[LocalSlot(t)] = NoSession
                                     THEN "create" ELSE "return"]
    /\ UNCHANGED <<local, session_owner, returned, gs_calls>>

\* self.local.session = requests.Session(), with its auth and adapters
get_session_create(t) ==
    /\ UNCHANGED besidesGs
    /\ gs_pc[t] = "create"
    /\ session_owner' = Append(session_owner, t)
    /\ local' = [local EXCEPT ![LocalSlot(t)] = Len(session_owner) + 1]
    /\ gs_pc' = [gs_pc EXCEPT ![t] = "return"]
    /\ UNCHANGED <<returned, gs_calls>>

\* `return self.local.session`
get_session_return(t) ==
    /\ UNCHANGED besidesGs
    /\ gs_pc[t] = "return"
    /\ returned' = [returned EXCEPT ![t] = @ \cup {local[LocalSlot(t)]}]
    /\ gs_calls' = [gs_calls EXCEPT ![t] = @ + 1]
    /\ gs_pc' = [gs_pc EXCEPT ![t] = "idle"]
    /\ UNCHANGED <<local, session_owner>>

GsNext == \E t \in SessionThreads :
    get_session_hasattr(t) \/ get_session_create(t) \/ get_session_return(t)

-----------------------------------------------------------------------------
(* data_generation/ingest_big5_data.py: send_batch and main *)

\* the lines of the data file stand for at most MaxLines lines, and
\* batch_size for the 1000 of main
MaxLines == 4
batch_size == 2

\* what a line of the data file can be: a JSON object, another JSON value
\* (a number, a string, a list, null), text that is not JSON, or a blank line
LineKinds == {"object", "scalar", "invalid", "blank"}

DataFiles == UNION {[1..n -> LineKinds] : n \in 0..MaxLines}

\* `if not line.strip(): continue`
IsBlank(kind) == kind = "blank"

\* json.loads(line.strip()) raises JSONDecodeError
JsonDecodeError(kind) == kind = "invalid"

\* `doc["@timestamp"] = ...` raises TypeError on a value that is no object
ItemAssignmentRaises(kind) == kind = "scalar"

\* send_batch(docs): (success, indexed) for what the POST came to; on a
\* response with errors true the items with status 200 or 201 are counted
send_batch(docs, outcome, item_successes) ==
    CASE outcome = "200 errors=false" -> <<TRUE, Len(docs)>>
      [] outcome = "200 errors=true" -> <<TRUE, item_successes>>
      [] OTHER -> <<FALSE, 0>>

SendOutcomes == {"200 errors=false", "200 errors=true", "500", "exception"}

IngIdle ==
    /\ ing_pc = "idle" /\ data_file = <<>> /\ line_num = 0
    /\ batch_docs = <<>> /\ total_docs = 0 /\ successful_docs = 0
    /\ batch_count = 0 /\ sent = <<>>

IngInit ==
    /\ ing_pc = "loop" /\ data_file \in DataFiles /\ line_num = 0
    /\ batch_docs = <<>> /\ total_docs = 0 /\ successful_docs = 0
    /\ batch_count = 0 /\ sent = <<>>

\* success, indexed = send_batch(docs); batch_count += 1; ...
Submit(docs) ==
    \E outcome \in SendOutcomes, item_successes \in 0..Len(docs) :
        LET result == send_batch(docs, outcome, item_successes)
        IN  /\ sent' = Append(sent, docs)
            /\ batch_count' = batch_count + 1
            /\ successful_docs' = IF result[1]
                                   THEN successful_docs + result[2]
                                   ELSE successful_docs

\* one iteration of `for line_num, line in enumerate(f, 1)`; a document
\* is known by the number of its line
ReadLine ==
    /\ UNCHANGED besidesIng
    /\ ing_pc = "loop"
    /\ line_num < Len(data_file)
    /\ LET n == line_num + 1
           kind == data_file[n]
           docs == Append(batch_docs, n)
       IN  /\ line_num' = n
           /\ IF IsBlank(kind) \/ JsonDecodeError(kind)
              THEN UNCHANGED <<ing_pc, batch_docs, total_docs,
                               successful_docs, batch_count, sent>>
              ELSE IF ItemAssignmentRaises(kind)
              THEN /\ ing_pc' = "TypeError"
                   /\ UNCHANGED <<batch_docs, total_docs, successful_docs,
                                  batch_count, sent>>
              ELSE /\ total_docs' = total_docs + 1
                   /\ UNCHANGED ing_pc
                   /\ IF Len(docs) >= batch_size
                      THEN /\ Submit(docs)
                           /\ batch_docs' = <<>>
                      ELSE /\ batch_docs' = docs
                           /\ UNCHANGED <<successful_docs, batch_count,
                                          sent>>
    /\ UNCHANGED data_file

\* after the loop: `if batch_docs:` the remaining documents are sent
FinalBatch ==
    /\ UNCHANGED besidesIng
    /\ ing_pc = "loop"
    /\ line_num = Len(data_file)
    /\ ing_pc' = "done"
    /\ IF batch_docs # <<>>
       THEN Submit(batch_docs)
       ELSE UNCHANGED <<successful_docs, batch_count, sent>>
    /\ UNCHANGED <<data_file, line_num, batch_docs, total_docs>>

IngNext == ReadLine \/ FinalBatch

-----------------------------------------------------------------------------
(* Specifications *)

InitPct == PctInit /\ CmpIdle /\ WkIdle /\ RunIdle /\ LocIdle /\ VizIdle /\ GsIdle
    /\ IngIdle
SpecPct == InitPct /\ [][PctApply]_vars

InitCompare == PctIdle /\ CmpInit /\ WkIdle /\ RunIdle /\ LocIdle /\ VizIdle /\ GsIdle
    /\ IngIdle
SpecCompare == InitCompare /\ [][CmpNext]_vars

InitWorker == PctIdle /\ CmpIdle /\ WkInit /\ RunIdle /\ LocIdle /\ VizIdle /\ GsIdle
    /\ IngIdle
SpecWorker == InitWorker /\ [][WkNext]_vars

InitRun == PctIdle /\ CmpIdle /\ WkIdle /\ RunInit /\ LocIdle /\ VizIdle /\ GsIdle
    /\ IngIdle
SpecRun == InitRun /\ [][RunNext]_vars

InitLocust == PctIdle /\ CmpIdle /\ WkIdle /\ RunIdle /\ LocInit /\ VizIdle /\ GsIdle
    /\ IngIdle
SpecLocust == InitLocust /\ [][LocNext]_vars

InitViz == PctIdle /\ CmpIdle /\ WkIdle /\ RunIdle /\ LocIdle /\ VizInit /\ GsIdle
    /\ IngIdle
SpecViz == InitViz /\ [][VizNext]_vars

InitSession == PctIdle /\ CmpIdle /\ WkIdle /\ RunIdle /\ LocIdle /\ VizIdle /\ GsInit
    /\ IngIdle
SpecSession == InitSession /\ [][GsNext]_vars

InitIngest == PctIdle /\ CmpIdle /\ WkIdle /\ RunIdle /\ LocIdle /\ VizIdle /\ GsIdle
    /\ IngInit
SpecIngest == InitIngest /\ [][IngNext]_vars

-----------------------------------------------------------------------------
(* Properties of the comparison tool *)

NamesOf(table) == {table[i]["Name"] : i \in 1..Len(table)}

\* the names both input files hold
SharedNames == NamesOf(fs[CalciteCsv].rows) \cap NamesOf(fs[NonCalCsv].rows)

ResultNames == {comparison_results[i].QueryName : i \in 1..Len(comparison_results)}

\* the row loop of compare_performance has gone through every query name
LoopDone == loop_i > Len(all_queries)

\* C1: main() started with two (or three) file arguments naming existing
\* result files that share a query name writes the merged table to the
\* output path and exits with code 0.
C1_CommandLineRunSucceeds ==
    (/\ cmp_pc = "exit"
     /\ Len(argv) >= 3
     /\ fs[argv[2]].tag = "input" /\ fs[argv[3]].tag = "input"
     /\ SharedNames # {})
    => (exit_code = 0 /\ fs[output_file].tag = "written")

\* the names of the rows the loop would append for calcite table c and
\* non-calcite table n
JoinedNames(c, n) ==
    {q \in NamesOf(c) \cup NamesOf(n) :
        ~SkipRow(Get(NameMap(c), q, EmptyDict), Get(NameMap(n), q, EmptyDict))}

\* C2: once the loop is through, the merged table holds exactly one row for
\* each query name present in both inputs and none for any other name, the
\* written file is that table, and swapping the inputs joins the same names.
C2_JoinIsIntersection ==
    LoopDone =>
        /\ ResultNames = NamesOf(calcite_data) \cap NamesOf(non_calcite_data)
        /\ Len(comparison_results) = Cardinality(ResultNames)
        /\ fs[output_file].tag = "written" => fs[output_file].rows = comparison_results
        /\ JoinedNames(calcite_data, non_calcite_data)
               = JoinedNames(non_calcite_data, calcite_data)

\* a table was written although one input holds a name the other lacks, and
\* one input repeats a name
C2_Witness ==
    /\ cmp_pc = "exit" /\ exit_code = 0
    /\ fs[output_file].tag = "written"
    /\ Len(fs[output_file].rows) = 1
    /\ NamesOf(calcite_data) \ NamesOf(non_calcite_data) # {}
    /\ Len(calcite_data) > Cardinality(NamesOf(calcite_data))

\* the average the loop reads from an input row (a missing column reads '0')
AvgOf(data, name) == float(Get(NameMap(data)[name], AVG, <<"0">>)).v

\* C3: in every output row the label is "Calcite" iff the calcite average is
\* strictly below the non-calcite average, "Non-Calcite" iff it is strictly
\* above, and "Equal" iff the two are equal.
C3_WinnerLabel ==
    \A i \in 1..Len(comparison_results) :
        LET r == comparison_results[i]
            a == AvgOf(calcite_data, r.QueryName)
            b == AvgOf(non_calcite_data, r.QueryName)
        IN  /\ r.Better \in {<<"Calcite">>, <<"Non-Calcite">>, <<"Equal">>}
            /\ r.Better = <<"Calcite">> <=> a < b
            /\ r.Better = <<"Non-Calcite">> <=> a > b
            /\ r.Better = <<"Equal">> <=> a = b

\* a written table with a row won by a difference of one, and a tie
C3_Witness ==
    /\ cmp_pc = "exit" /\ exit_code = 0
    /\ \E i \in 1..Len(comparison_results) :
        /\ comparison_results[i].Better = <<"Non-Calcite">>
        /\ AvgOf(calcite_data, comparison_results[i].QueryName)
               = AvgOf(non_calcite_data, comparison_results[i].QueryName) + 1
    /\ \E i \in 1..Len(comparison_results) :
        comparison_results[i].Better = <<"Calcite">>

\* C6: a non-numeric metric text in a compared row does not abort the run:
\* the matched rows are still written and the run ends with code 0.
C6_NonNumericDoesNotAbort ==
    (/\ cmp_pc = "exit"
     /\ loop_i >= 1
     /\ SharedNames # {}
     /\ \A t \in {calcite_data, non_calcite_data} : \A i \in 1..Len(t) :
            \A c \in DOMAIN t[i] : t[i][c] # None /\ float(t[i][c]).v >= 0)
    => (/\ exc = "none" /\ exit_code = 0
        /\ fs[output_file].tag = "written"
        /\ ResultNames = SharedNames)

-----------------------------------------------------------------------------
(* Properties of calculate_percentage_change *)

\* text of the form [-]digits.dd%
WellFormedPct(s) ==
    LET body == IF Len(s) > 0 /\ s[1] = "-" THEN Tail(s) ELSE s
        n    == Len(body)
    IN  /\ n >= 5
        /\ body[n] = "%"
        /\ IsDigit(body[n - 1]) /\ IsDigit(body[n - 2])
        /\ body[n - 3] = "."
        /\ AllDigits(SubSeq(body, 1, n - 4))

\* the hundredths a well-formed percentage text denotes
HundredthsOf(s) ==
    LET neg  == s[1] = "-"
        body == IF neg THEN Tail(s) ELSE s
        n    == Len(body)
        mag  == DigitsValue(SubSeq(body, 1, n - 4)) * 100
                + DigitVal(body[n - 2]) * 10 + DigitVal(body[n - 1])
    IN  IF neg THEN 0 - mag ELSE mag

\* C4: for numeric a and b with b # 0 the result is (a - b) / b * 100 with
\* exactly two decimals and a trailing '%': the text denotes the hundredth
\* nearest to the exact value, the divisor being the non-calcite value.
C4_PercentageChange ==
    LET a == float(calcite_val)
        b == float(non_calcite_val)
    IN  (pct_pc = "done" /\ a.exc = "none" /\ b.exc = "none" /\ b.v # 0)
        => /\ pct_result.kind = "return"
           /\ WellFormedPct(pct_result.val)
           /\ 2 * Abs(HundredthsOf(pct_result.val) * b.v - (a.v - b.v) * 10000)
                  <= Abs(b.v)

\* the scenario of the specification: 10 against 20 is "-50.00%"
C4_Witness ==
    /\ pct_pc = "done"
    /\ calcite_val = <<"1", "0">> /\ non_calcite_val = <<"2", "0">>
    /\ pct_result = Returned(<<"-", "5", "0", ".", "0", "0", "%">>)

\* C5: calculate_percentage_change never raises; it returns "N/A" whenever
\* the baseline is zero or either value is not numeric (absent included),
\* and a formatted percentage otherwise.
C5_NeverRaises ==
    LET a == float(calcite_val)
        b == float(non_calcite_val)
    IN  pct_pc = "done" =>
            /\ pct_result.kind = "return"
            /\ IF a.exc # "none" \/ b.exc # "none" \/ b.v = 0
               THEN pct_result.val = NA
               ELSE WellFormedPct(pct_result.val)

-----------------------------------------------------------------------------
(* Properties of the generator worker *)

\* the number of entries of h equal to b
RECURSIVE CountOf(_, _)
CountOf(h, b) == IF h = <<>> THEN 0
                 ELSE (IF h[Len(h)] = b THEN 1 ELSE 0)
                      + CountOf(SubSeq(h, 1, Len(h) - 1), b)

\* the number of failed batches since the last batch that succeeded
RECURSIVE TrailingFailures(_)
TrailingFailures(h) == IF h = <<>> \/ h[Len(h)] THEN 0
                       ELSE 1 + TrailingFailures(SubSeq(h, 1, Len(h) - 1))

\* the submissions a batch is given before it is counted as failed
AttemptsAllowed(v) == IF v \in Retrying THEN 3 ELSE 1

\* the batch last submitted is settled (nothing is in progress)
BatchSettled == Len(history) > 0 /\ retry = 0

\* C7 as stated: in every variant a batch is counted as failed only after
\* three submissions of it have failed.
C7_ThreeAttemptsEveryVariant ==
    (BatchSettled /\ ~history[Len(history)]) => attempts = 3

\* C7, amended: the retrying variants submit a batch until it succeeds or
\* three submissions have failed, the firewall variant submits it once; a
\* batch is counted as failed exactly when its last allowed submission
\* fails, never while submissions remain and never when one succeeded.
C7_RetryThenCount ==
    /\ failed_count = CountOf(history, FALSE)
    /\ success_count = BatchSize(w_variant) * CountOf(history, TRUE)
    /\ BatchSettled =>
          /\ attempts \in 1..AttemptsAllowed(w_variant)
          /\ ~history[Len(history)] => attempts = AttemptsAllowed(w_variant)
    /\ retry > 0 =>
          /\ w_variant \in Retrying
          /\ attempts = retry /\ retry < 3
          /\ Len(history) = batch_num
          /\ ~bulk_index(last_response)

\* a retrying worker: one batch went through on its second submission, the
\* next was refused three times with errors: true and is counted as failed
C7_Witness ==
    /\ w_variant \in Retrying
    /\ history = <<TRUE, FALSE>>
    /\ attempts = 3 /\ failed_count = 1
    /\ last_response = "200 errors=true"
    /\ success_count = BatchSize(w_variant)

\* C8 as stated: in every variant the worker breaks off iff the failed
\* batches since the last success exceed the threshold (5, firewall 10).
C8_ConsecutiveEveryVariant ==
    (w_pc = "break") <=>
        (TrailingFailures(history) >
            (IF w_variant \in Retrying THEN ConsecutiveFailureLimit
             ELSE FirewallFailureLimit))

\* C8, amended: a retrying worker breaks off iff the failed batches since
\* its last successful batch exceed 5, a success setting that count back to
\* zero; the firewall worker breaks off iff its failed batches in total
\* exceed 10, successes in between notwithstanding.  Either way the worker
\* returns the counts of the batches it has processed.
C8_EarlyStop ==
    /\ w_variant \in Retrying =>
          /\ consecutive_failures = TrailingFailures(history)
          /\ (w_pc = "break") <=> (TrailingFailures(history) > 5)
    /\ w_variant = "nfw" =>
          ((w_pc = "break") <=> (CountOf(history, FALSE) > 10))
    /\ w_pc \in {"break", "exhausted"} =>
          /\ Len(history) = batch_num /\ batch_num <= num_batches
          /\ w_pc = "exhausted" => batch_num = num_batches
          /\ success_count = BatchSize(w_variant) * CountOf(history, TRUE)
          /\ failed_count = CountOf(history, FALSE)

\* a retrying worker that broke off with batches left, after a success and
\* six failed batches in a row
C8_Witness ==
    /\ w_variant \in Retrying
    /\ w_pc = "break"
    /\ batch_num < num_batches
    /\ success_count > 0
    /\ failed_count = 6

-----------------------------------------------------------------------------
(* Properties of the generator run *)

RECURSIVE SumOver(_, _, _)
SumOver(f, k, S) == IF S = {} THEN 0
                    ELSE LET w == CHOOSE x \in S : TRUE
                         IN  f[w][k] + SumOver(f, k, S \ {w})

\* C9: when every submission succeeds, the documents indexed by all the
\* workers together are the configured target document count.
C9_TargetReached ==
    (/\ m_pc = "done"
     /\ \A w \in DOMAIN wstate :
            wresult[w] = AllIndexed(variant, batches_per_thread))
    => total_indexed = TargetDocs(variant)

\* C10 as stated: no worker's counts are added to the totals while another
\* worker is still running.
C10_AddedOnlyAfterAll ==
    (\E w \in DOMAIN wstate : wstate[w] = "collected")
    => (\A u \in DOMAIN wstate : wstate[u] # "running")

\* C10, amended: a worker's counts are added when its own future completes,
\* other workers possibly still running; the totals are final (the loop and
\* the with-block are left) only when every worker has returned and been
\* added, and they then hold every worker's counts.
C10_FinalAfterAll ==
    /\ m_pc \in {"refresh", "done"} =>
          /\ \A w \in DOMAIN wstate : wstate[w] = "collected"
          /\ total_indexed = SumOver(wresult, 1, DOMAIN wstate)
          /\ total_failed = SumOver(wresult, 2, DOMAIN wstate)
    /\ \A w \in DOMAIN wstate : wstate[w] \in {"unsubmitted", "running"}
                                    => wresult[w] = NoResult

\* a finished run in which one worker came back with failures
C10_Witness ==
    /\ m_pc = "done"
    /\ total_failed > 0 /\ total_indexed > 0

-----------------------------------------------------------------------------
(* The generator run: refresh and environment *)

WorkersTerminated == \A w \in DOMAIN wstate : wstate[w] \in {"done", "collected"}

\* C11: in every generator variant, a run whose workers have all terminated
\* ends having issued the refresh request on the index, and the refresh is
\* issued only after the last worker has terminated.
C11_RefreshAfterWorkers ==
    /\ ("_refresh" \in http_log => WorkersTerminated)
    /\ (m_pc = "done" => "_refresh" \in http_log)

\* main got past the environment check (the generator is constructed right
\* after it)
GeneratorConstructed == m_pc \notin {"start", "usage"}

\* C12: if OPENSEARCH_ENDPOINT or INDEX_NAME (in the firewall variant also
\* OPENSEARCH_USER or OPENSEARCH_PASSWORD) is missing or empty, main ends
\* with the usage message: no generator, no HTTP request, no worker.
C12_MissingEnvNoSideEffects ==
    (\/ env["OPENSEARCH_ENDPOINT"] \in {None, EmptyText}
     \/ env["INDEX_NAME"] \in {None, EmptyText}
     \/ /\ variant = "nfw"
        /\ \/ env["OPENSEARCH_USER"] \in {None, EmptyText}
           \/ env["OPENSEARCH_PASSWORD"] \in {None, EmptyText})
    => /\ ~GeneratorConstructed
       /\ http_log = {}
       /\ submitted = 0
       /\ \A w \in DOMAIN wstate : wstate[w] = "unsubmitted"

C12_Witness ==
    /\ m_pc = "usage"
    /\ variant = "nfw"
    /\ env["OPENSEARCH_PASSWORD"] = EmptyText
    /\ env["OPENSEARCH_ENDPOINT"] = EnvSet

-----------------------------------------------------------------------------
(* The load test client *)

\* C13: a request is recorded as a success if and only if its status code
\* is exactly 200 and inspecting the response raised nothing; every other
\* status, and an exception, is recorded as a failure, and the user of a
\* recorded failure goes on with its task iterations.
C13_SuccessIffStatus200 ==
    \A u \in DOMAIN u_iter :
        LET it == u_iter[u]
        IN  /\ it.outcome # "none" =>
                /\ it.outcome \in {"success", "failure"}
                /\ it.outcome = "success" <=> (it.status_code = 200 /\ ~it.raised)
            /\ (it.outcome = "failure" \/ it.after_failure) =>
                u_pc[u] \in {"ready", "posted"}

C13_Witness ==
    \E u \in DOMAIN u_iter :
        /\ u_iter[u].after_failure
        /\ u_iter[u].status_code = 201
        /\ u_iter[u].outcome = "failure"

\* C14 as stated: every task iteration, whichever task is scheduled and
\* whatever QUERY_TYPE is, submits exactly one request for a loaded query.
C14_OneRequestEveryIteration ==
    \A u \in DOMAIN u_iter :
        u_iter[u].task # "none" =>
            /\ u_iter[u].requests = 1
            /\ u_iter[u].query \in queries \cup dsl_queries

\* C14: an iteration of execute_ppl_query submits exactly one request, to
\* /_plugins/_ppl and for a loaded PPL query, when PPL queries are loaded
\* and QUERY_TYPE is ppl or both, and submits nothing otherwise; likewise
\* execute_dsl_query with the DSL queries and /<log type>/_search.
C14_OneRequestOfTheTasksKind ==
    \A u \in DOMAIN u_iter :
        LET it == u_iter[u]
        IN  /\ it.task = "ppl" =>
                IF queries # {} /\ query_type \in {ppl, both}
                THEN it.requests = 1 /\ it.query \in queries /\ it.path = PplPath
                ELSE it.requests = 0
            /\ it.task = "dsl" =>
                IF dsl_queries # {} /\ query_type \in {dsl, both}
                THEN /\ it.requests = 1 /\ it.query \in dsl_queries
                     /\ it.path = <<"/">> \o it.query[1] \o <<"/_search">>
                ELSE it.requests = 0
            /\ it.requests = 1 =>
                it.query[1] \in {vpc, waf} /\ it.query[1] \in log_types(cls_log_type)

\* two users have each picked a different loaded query of one kind, and a
\* third iteration was one that sends nothing
C14_Witness ==
    /\ os_environ.QUERY_TYPE = dsl
    /\ \E u, v \in DOMAIN u_iter :
        /\ u_iter[u].task = "dsl" /\ u_iter[v].task = "dsl"
        /\ u_iter[u].requests = 1 /\ u_iter[v].requests = 1
        /\ u_iter[u].query # u_iter[v].query
        /\ ~u_iter[u].after_failure

IsSearchPath(path) == path[Len(path)] = "/_search"

\* C15: with QUERY_TYPE=ppl no request goes to a /<index>/_search endpoint
\* and no DSL file is loaded; with QUERY_TYPE=dsl no request goes to
\* /_plugins/_ppl and no PPL file is loaded.  (That both kinds can be sent
\* with QUERY_TYPE=both or unset is the witness.)
C15_SelectorControlsRequests ==
    /\ os_environ.QUERY_TYPE = ppl =>
        /\ dsl_queries = {}
        /\ \A path \in posted : ~IsSearchPath(path)
    /\ os_environ.QUERY_TYPE = dsl =>
        /\ queries = {}
        /\ PplPath \notin posted

C15_Witness ==
    /\ os_environ.QUERY_TYPE = None
    /\ query_type = both
    /\ PplPath \in posted
    /\ \E path \in posted : IsSearchPath(path)

\* C16: whatever the number of users and the order of their on_start calls
\* and task steps, at most one load of the query set completes, and once it
\* has, queries and dsl_queries never change.
C16_LoadedOnce ==
    [][/\ load_count' <= 1
       /\ load_count >= 1 => (queries' = queries /\ dsl_queries' = dsl_queries)]_vars

C16_Witness ==
    /\ load_count = 1
    /\ \A u \in DOMAIN u_pc : u_pc[u] # "new"
    /\ \E u \in DOMAIN u_iter : u_iter[u].outcome = "success"
    /\ queries # {} /\ dsl_queries # {}

-----------------------------------------------------------------------------
(* The charts *)

\* C17: a completed run of create_all_visualizations has saved every chart
\* of the fixed set: the median, p95, p99 and requests-per-second charts,
\* the improvement chart, the winner chart and, when the table has an
\* Aggregated row, the aggregate summary.
C17_EveryChartRendered ==
    viz_pc = "done" =>
        /\ {"median_comparison.png", "p95_comparison.png", "p99_comparison.png",
            "requests_per_second.png", "performance_improvement.png",
            "winner_summary.png"} \subseteq png_files
        /\ Len(df_aggregated) > 0 => "aggregated_summary.png" \in png_files

-----------------------------------------------------------------------------
(* The comparison tool: annotation, summary, exit code *)

\* the rows of the table the run wrote
WrittenRows == fs[output_file].rows

\* C18: a row's 'PPL Query' is "N/A" when no log type was given, when the
\* ppl directory of the log type is not found, when that directory has no
\* <name>.ppl for the row, and always for the Aggregated row; the run goes
\* on and the row is written with the rest of the table.
C18_AnnotationDegradesToNA ==
    /\ \A i \in 1..Len(comparison_results) :
        LET r == comparison_results[i]
            file_name == r.QueryName[Len(r.QueryName)]
        IN  (\/ ppl_type = "None"
             \/ ppl_type \notin ppl_store.dirs
             \/ <<ppl_type, <<file_name>>>> \notin ppl_store.files
             \/ r.QueryName = Aggregated)
            => r.PPLQuery = NA
    /\ (cmp_pc = "exit" /\ LoopDone /\ comparison_results # <<>>) =>
        /\ fs[output_file].tag = "written"
        /\ WrittenRows = comparison_results
        /\ exc = "none" => exit_code = 0

\* the directory was found but holds no file for the query, and the table
\* was written with "N/A" for the query and for the Aggregated row
C18_Witness ==
    /\ cmp_pc = "exit" /\ exit_code = 0
    /\ ppl_type = "vpc" /\ ppl_store = BareStore
    /\ fs[output_file].tag = "written"
    /\ \E i, j \in 1..Len(WrittenRows) :
        /\ WrittenRows[i].QueryName = PplVpcQ1 /\ WrittenRows[i].PPLQuery = NA
        /\ WrittenRows[j].QueryName = Aggregated /\ WrittenRows[j].PPLQuery = NA

RowsLabelled(label) ==
    {i \in 1..Len(WrittenRows) :
        WrittenRows[i].QueryName # Aggregated /\ WrittenRows[i].Better = label}

\* C19: a run of compare_performance that returns 0 has printed the
\* aggregate summary if and only if both inputs hold a row named
\* 'Aggregated'; the printed win counts are those of the rows other than
\* Aggregated, so that with the ties they add up to the number of those rows.
C19_SummaryIffAggregated ==
    /\ summary.printed => (cmp_pc = "exit" /\ exit_code = 0)
    /\ (cmp_pc = "exit" /\ exit_code = 0) =>
        /\ summary.printed <=>
              (/\ Aggregated \in NamesOf(calcite_data)
               /\ Aggregated \in NamesOf(non_calcite_data))
        /\ summary.printed =>
            /\ summary.calcite_wins = Cardinality(RowsLabelled(<<"Calcite">>))
            /\ summary.non_calcite_wins = Cardinality(RowsLabelled(<<"Non-Calcite">>))
            /\ summary.calcite_wins + summary.non_calcite_wins
                 + Cardinality(RowsLabelled(<<"Equal">>))
               = Cardinality({i \in 1..Len(WrittenRows) :
                                 WrittenRows[i].QueryName # Aggregated})

\* the summary was printed for a table whose Aggregated row is itself
\* labelled a Calcite win and is not counted
C19_Witness ==
    /\ summary.printed
    /\ \E i \in 1..Len(WrittenRows) :
        WrittenRows[i].QueryName = Aggregated /\ WrittenRows[i].Better = <<"Calcite">>
    /\ summary.calcite_wins = 0
    /\ summary.non_calcite_wins + Cardinality(RowsLabelled(<<"Equal">>)) > 0

\* C20: the run ends with exit code 1 and no file written (the output path
\* is neither created nor overwritten) when an input file named on the
\* command line does not exist, and when the inputs share no query name.
C20_FailureLeavesOutputUntouched ==
    (/\ cmp_pc = "exit"
     /\ \/ Len(argv) >= 3 /\ (~fs[argv[2]].exists \/ ~fs[argv[3]].exists)
        \/ SharedNames = {})
    => /\ exit_code = 1
       /\ \A path \in DOMAIN fs : fs[path].tag # "written"

\* the loop went through two existing inputs without a shared name, and an
\* older output file is still what it was
C20_Witness ==
    /\ cmp_pc = "exit" /\ exit_code = 1 /\ exc = "none"
    /\ LoopDone
    /\ fs[CalciteCsv].rows # <<>> /\ fs[NonCalCsv].rows # <<>>
    /\ SharedNames = {}
    /\ fs[output_file] = OldFile

\* C21: for every merged table the comparison can write, rows labelled
\* "Equal" with the improvement text "Same performance" included,
\* create_all_visualizations runs to its end without an error.
C21_VisualizationCompletes ==
    viz_pc # "raised" /\ viz_exc = "none"

-----------------------------------------------------------------------------
(* The comparison tool: the console summary *)

AggregatedOf(data) == Get(NameMap(data), Aggregated, EmptyDict)

\* C22: each of the three changes the summary prints (average, median,
\* requests per second) is the percentage change between the Aggregated row
\* of the calcite input and the Aggregated row of the non-calcite input,
\* whatever other rows the inputs hold.
C22_SummaryChangesOfAggregated ==
    summary.printed =>
        LET change(m) ==
                calculate_percentage_change(Get(AggregatedOf(calcite_data), m, <<"0">>),
                                            Get(AggregatedOf(non_calcite_data), m, <<"0">>))
        IN  /\ summary.avg_change = change(AVG).val
            /\ summary.median_change = change(MEDIAN).val
            /\ summary.rps_change = change(RPS).val

-----------------------------------------------------------------------------
(* The generator run: the totals *)

Collected == {w \in DOMAIN wstate : wstate[w] = "collected"}

\* C23: the totals are at every moment the sums of the (indexed, failed)
\* counts of the workers collected so far, each counted once whatever the
\* order in which the workers finish, and the final report comes only after
\* every worker has returned and been counted.
C23_TotalsAreSumOfReturned ==
    /\ total_indexed = SumOver(wresult, 1, Collected)
    /\ total_failed = SumOver(wresult, 2, Collected)
    /\ m_pc \in {"refresh", "done"} => Collected = DOMAIN wstate

\* the final report of a run in which the second worker failed throughout
\* and the first did not
C23_Witness ==
    /\ m_pc = "done" /\ variant = "cloudtrail"
    /\ wresult[1] = AllIndexed(variant, batches_per_thread)
    /\ wresult[2] = NoneIndexed(variant)
    /\ total_failed = StopAfter(variant)

-----------------------------------------------------------------------------
(* The generators: sessions *)

SessionsCreatedBy(t) == {i \in 1..Len(session_owner) : session_owner[i] = t}

\* C24: under any interleaving of the threads calling get_session on one
\* generator, a thread creates at most one session, every call of a thread
\* returns that same session, and no thread is ever given a session that
\* another thread created.
C24_OneSessionPerThread ==
    \A t \in DOMAIN returned :
        /\ Cardinality(SessionsCreatedBy(t)) <= 1
        /\ Cardinality(returned[t]) <= 1
        /\ returned[t] \subseteq SessionsCreatedBy(t)

\* every thread made all its calls, the creations interleaved so that the
\* sessions were not created in the order of the threads
C24_Witness ==
    /\ \A t \in DOMAIN gs_calls : gs_calls[t] = MaxCalls
    /\ Len(session_owner) = NumSessionThreads
    /\ session_owner[1] # 1

-----------------------------------------------------------------------------
(* C25: bulk_index reports the outcome of a submission as a boolean: the
   worker sees a success exactly when the POST came back with status 200 or
   201 and a false errors flag; any other status, a body with errors true, a
   timeout, a connection error or another exception is seen as a failure,
   and the worker goes on (it is never left by an exception). *)
SeenAsSuccess ==
    /\ retry = 0
    /\ history # <<>>
    /\ history[Len(history)]
    /\ success_count > 0

\* C25: the worker sees a success exactly for status 200 or 201 with a
\* false errors flag, and is never left by an exception of the request.
C25_BulkIndexBoolean ==
    last_response # "none" =>
        /\ w_pc \in {"loop", "break", "exhausted"}
        /\ SeenAsSuccess <=>
              /\ ~RequestRaises(last_response)
              /\ bulk_status_code(last_response) \in {200, 201}
              /\ ~errors(last_response)

C25_Witness ==
    /\ last_response = "200 errors=true"
    /\ history = <<TRUE, FALSE>>
    /\ w_variant = "nfw"

-----------------------------------------------------------------------------
(* C26: in the file-based ingester a line that is not valid JSON is skipped
   and no line stops the run; every valid non-blank line read so far is in
   exactly one batch, in file order; every batch sent inside the loop holds
   batch_size documents, the rest go in one final batch, every batch is
   submitted once, and total_docs is the number of valid lines read. *)
RECURSIVE Flatten(_)
Flatten(batches) ==
    IF batches = <<>> THEN <<>>
    ELSE batches[1] \o Flatten(Tail(batches))

\* the numbers of the non-blank lines among the first n that hold valid JSON
RECURSIVE ValidLines(_)
ValidLines(n) ==
    IF n = 0 THEN <<>>
    ELSE IF data_file[n] \in {"object", "scalar"}
         THEN Append(ValidLines(n - 1), n)
         ELSE ValidLines(n - 1)

BatchesWellFormed ==
    /\ ing_pc \in {"idle", "loop", "done"}
    /\ total_docs = Len(ValidLines(line_num))
    /\ batch_count = Len(sent)
    /\ Len(batch_docs) < batch_size \/ ing_pc = "done"
    /\ IF ing_pc = "done"
       THEN Flatten(sent) = ValidLines(Len(data_file))
       ELSE Flatten(sent) \o batch_docs = ValidLines(line_num)
    /\ \A i \in 1..Len(sent) :
          \/ Len(sent[i]) = batch_size
          \/ /\ i = Len(sent)
             /\ ing_pc = "done"
             /\ Len(sent[i]) \in 1..batch_size

\* C26: no line stops the run, and every valid non-blank line read is in
\* exactly one batch, in file order, each batch submitted once.
C26_EveryValidLineInOneBatch == BatchesWellFormed

\* the same for a data file whose valid lines are all JSON objects
IngestOfObjectLines ==
    (\A n \in DOMAIN data_file : data_file[n] # "scalar") => BatchesWellFormed

-----------------------------------------------------------------------------
(* C27: a row's 'PPL Query', when it is not "N/A", is the text of the file
   of the row's own query: the row is named 'PPL Query: <type>/<name>' and
   the text is that of ppl/<type>/<name>.ppl; a 'DSL Query' row never gets
   the text of a PPL file, and a PPL row never gets text from the
   directory of another log type. *)
OwnQueryText(query_name) ==
    IF Len(query_name) = 6 /\ query_name[1] = "PPL Query"
    THEN PplFileText(query_name[4], <<query_name[6]>>)
    ELSE NA

\* C27: a 'PPL Query' that is not "N/A" is the text of the file of the
\* row's own query kind and log type.
C27_AnnotationOfOwnQuery ==
    \A i \in 1..Len(comparison_results) :
        LET r == comparison_results[i]
        IN  r.PPLQuery # NA => r.PPLQuery = OwnQueryText(r.QueryName)

-----------------------------------------------------------------------------
(* C28: whatever the outcomes of bulk_index, a retrying worker processes at
   most num_batches batches with at most 3 * num_batches submissions and
   then leaves its loop; at every point success_count is batch_size times
   the number of batches that succeeded, the succeeded and the failed
   batches add up to the batches processed, and consecutive_failures is at
   most failed_count. *)
SucceededBatches == Cardinality({i \in 1..Len(history) : history[i]})

RetryingWorkerCounts ==
    w_variant \in Retrying =>
        /\ batch_num <= num_batches
        /\ submissions <= max_retries * num_batches
        /\ Len(history) = batch_num
        /\ success_count = BatchSize(w_variant) * SucceededBatches
        /\ SucceededBatches + failed_count = batch_num
        /\ consecutive_failures <= failed_count
        /\ w_pc = "loop" => batch_num < num_batches
        /\ (w_pc = "loop" /\ retry = 0) =>
              submissions <= max_retries * batch_num

\* the submissions the loop can still make
Remaining == max_retries * (num_batches - batch_num) - retry

\* a step of the worker is one submission, one of those still remaining
UsesOneSubmission ==
    w_variant \in Retrying =>
        /\ Remaining' < Remaining
        /\ Remaining' >= 0
        /\ submissions' = submissions + 1

\* C28: the counts of a retrying worker hold in every state, and every
\* step uses up one of the at most 3 * num_batches submissions, so the
\* worker leaves its loop.
C28_RetryingWorkerCounts ==
    []RetryingWorkerCounts /\ [][UsesOneSubmission]_vars

\* every batch took its three submissions, succeeding or failing at the
\* last one, and the loop ran to its end
C28_Witness ==
    /\ w_variant = "waf"
    /\ w_pc = "exhausted"
    /\ num_batches = 4
    /\ submissions = max_retries * num_batches
    /\ history = <<FALSE, TRUE, FALSE, FALSE>>

-----------------------------------------------------------------------------
(* C29: with non-negative averages the improvement of a row is computed
   without a division by zero, and for a row that is not a tie it is
   (slower - faster) / slower * 100 of the two averages, more than 0 and at
   most 100, followed by '% faster'. *)
AverageOf(data, query_name) ==
    float(Get(Get(NameMap(data), query_name, EmptyDict), AVG, <<"0">>)).v

\* the row the loop stopped at when the run ended with an exception
RowAtExit == all_queries[loop_i]

\* C29: no ZeroDivisionError for non-negative averages, and the improvement
\* of a row that is not a tie is the share of the slower average saved.
C29_ImprovementOfSlower ==
    /\ (cmp_pc = "exit" /\ exc = "ZeroDivisionError") =>
          \/ AverageOf(calcite_data, RowAtExit) < 0
          \/ AverageOf(non_calcite_data, RowAtExit) < 0
    /\ \A i \in 1..Len(comparison_results) :
          LET r == comparison_results[i]
              ca == AverageOf(calcite_data, r.QueryName)
              na == AverageOf(non_calcite_data, r.QueryName)
              slower == IF ca < na THEN na ELSE ca
              faster == IF ca < na THEN ca ELSE na
          IN  (ca >= 0 /\ na >= 0 /\ ca # na) =>
                 /\ slower > 0
                 /\ (slower - faster) * 100 > 0
                 /\ (slower - faster) * 100 <= 100 * slower
                 /\ r.Improvement =
                        Format2f((slower - faster) * 100, slower)
                            \o <<"%", " faster">>
                 /\ r.Better = IF ca < na THEN <<"Calcite">>
                               ELSE <<"Non-Calcite">>

\* a row won by the side whose average is 0: the improvement is 100.00%
C29_Witness ==
    \E i \in 1..Len(comparison_results) :
        LET r == comparison_results[i]
        IN  /\ AverageOf(calcite_data, r.QueryName) = 0
            /\ AverageOf(non_calcite_data, r.QueryName) = 7
            /\ r.Improvement = <<"1", "0", "0", ".", "0", "0", "%", " faster">>

-----------------------------------------------------------------------------
(* C30: in every output row and for each of the seven compared metrics, a
   Calcite or Non-Calcite value field holding the placeholder "N/A" goes
   with a Change field that is "N/A" too, never a numeric percentage. *)
\* C30: a metric shown as "N/A" on either side has the change "N/A".
C30_PlaceholderValueHasNoChange ==
    \A i \in 1..Len(comparison_results) :
        \A m \in Metrics :
            LET r == comparison_results[i]
            IN  (r.Calcite[m] = NA \/ r.NonCalcite[m] = NA)
                    => r.Change[m] = NA

====
